---- MODULE Spec2Model ----
(***************************************************************************)
(* A model of the core of PyScrAI Universalis: the DuckDB state store, the *)
(* tick engine, the Archon's agent cache and event stream, and the LanceDB *)
(* memory bank.  Python values are modelled as TLA+ records; Python's None *)
(* is the record None.  Floats are modelled by integers.                   *)
(*                                                                         *)
(* Three specifications share the variables:                               *)
(*   StoreSpec  - DuckDBStateManager operations on rich world states       *)
(*   Spec       - the SimulationEngine driving the store and the Archon    *)
(*   MemSpec    - the LanceDBMemoryBank                                    *)
(***************************************************************************)
EXTENDS Integers, Sequences, FiniteSets, TLC

VARIABLES
    db,            \* DuckDB tables: snapshots, environment, entities
    lastSave,      \* history: the argument and outcome of the latest save_world_state
    nSaves,        \* history: number of direct save_world_state calls so far
    steps,         \* SimulationEngine.steps
    running,       \* SimulationEngine.running
    paused,        \* SimulationEngine.paused
    gate,          \* SimulationEngine._pause_event is set
    closed,        \* the engine's DuckDB connection has been closed
    archon,        \* SimulationEngine.archon: "none" or the attached Archon
    taskPc,        \* position of each coroutine calling async_step
    waiters,       \* asyncio.Event._waiters: the tasks blocked in _pause_event.wait()
    readyQ,        \* tasks whose wait() future was resolved by set(), in wake-up order
    agentCache,    \* Archon._agent_cache per Archon: actor id -> agent object
    nextObj,       \* allocator of agent object identities
    events,        \* MemoryStream._events of the engine's stream
    startCycle,    \* history: steps when the engine was constructed
    startSnapMax,  \* history: highest snapshot cycle in the store at that moment
    tickLog,       \* history: the ticks and resets of this engine, in order
    lastUsed,      \* history: the agent object each actor used in the latest tick
    cancelled,     \* history: the latest engine step was the cancellation of run_loop
    table,         \* LanceDB table rows (a sequence: duplicates are possible)
    storedHashes,  \* LanceDBMemoryBank._stored_hashes
    lastRetrieval, \* history: the latest retrieval call and what it returned
    lock,          \* LanceDBMemoryBank._lock: None or the thread holding it
    thr,           \* position and locals of each thread calling into the bank
    addResults,    \* history: per hash, the add() calls returned since the last clear()
    stream,        \* a MemoryStream of its own: _events, _event_index, max_events
    call           \* history: the latest call of a stateless operation and its result

storeVars == <<db, lastSave, nSaves>>
engineVars == <<steps, running, paused, gate, closed, archon, taskPc, waiters, readyQ,
                agentCache, nextObj, events, startCycle, startSnapMax, tickLog, lastUsed,
                cancelled>>
libVars == <<stream, call>>
lockVars == <<lock, thr, addResults>>
memVars == <<table, storedHashes, lastRetrieval, lock, thr, addResults>>
vars == <<db, lastSave, nSaves, steps, running, paused, gate, closed, archon, taskPc,
          waiters, readyQ, agentCache, nextObj, events, startCycle, startSnapMax, tickLog,
          lastUsed, cancelled, table, storedHashes, lastRetrieval, lock, thr, addResults,
          stream, call>>

(***************************************************************************)
(* Bounds of the model.                                                    *)
(***************************************************************************)
MaxCycle == 2      \* direct saves use cycles 0..MaxCycle
MaxSaves == 2      \* direct save_world_state calls per behaviour
MaxTicks == 2      \* tick bodies executed per behaviour
MaxRows == 3       \* rows in the memory table
MaxCalls == 2      \* bank calls made by each thread

(***************************************************************************)
(* Python values.                                                          *)
(***************************************************************************)
None == [tag |-> "None"]
Float(x) == [float |-> x]
DateTime(n) == [datetime |-> n]
EmptyDict == [k \in {} |-> 0]
Put(f, k, v) == [x \in (DOMAIN f) \cup {k} |-> IF x = k THEN v ELSE f[x]]

\* models.ResolutionType, a str Enum
MACRO == [enum |-> "ResolutionType.MACRO"]
MICRO == [enum |-> "ResolutionType.MICRO"]
ResolutionValue(r) == IF r = MACRO THEN "macro" ELSE "micro"
ResolutionOf(s) == IF s = "micro" THEN MICRO ELSE MACRO

Location(lat, lon, elevation) == [lat |-> lat, lon |-> lon, elevation |-> elevation]

Actor(id, role, description, resolution, assets, location, status) ==
    [actor_id |-> id, role |-> role, description |-> description,
     resolution |-> resolution, assets |-> assets, objectives |-> <<>>,
     location |-> location, attributes |-> EmptyDict, status |-> status]

Asset(id, name, type, location, status) ==
    [asset_id |-> id, name |-> name, asset_type |-> type, location |-> location,
     attributes |-> EmptyDict, status |-> status]

Environment(cycle, time, weather, global_events) ==
    [cycle |-> cycle, time |-> time, weather |-> weather,
     global_events |-> global_events, terrain_modifiers |-> EmptyDict]

WorldState(sim, env, actors, assets, last_updated, metadata) ==
    [simulation_id |-> sim, environment |-> env, actors |-> actors, assets |-> assets,
     last_updated |-> last_updated, metadata |-> metadata]

\* Asset.get_location_obj
GetLocationObj(asset) ==
    LET l == asset.location IN
    IF l # EmptyDict /\ "lat" \in DOMAIN l /\ "lon" \in DOMAIN l
    THEN Location(l["lat"], l["lon"],
                  IF "elevation" \in DOMAIN l THEN Float(l["elevation"]) ELSE None)
    ELSE None

(***************************************************************************)
(* JSON: WorldState.model_dump_json, and json.loads fed to WorldState.     *)
(* JSON null is JNull, an enum is dumped as its value, a datetime as its   *)
(* ISO string.                                                             *)
(***************************************************************************)
JNull == [json |-> "null"]
JNum(x) == [num |-> x]
IsoFormat(d) == [iso |-> d.datetime]
FromIsoFormat(s) == DateTime(s.iso)

LocationToJson(l) ==
    IF l = None THEN JNull
    ELSE [lat |-> l.lat, lon |-> l.lon,
          elevation |-> IF l.elevation = None THEN JNull ELSE JNum(l.elevation.float)]
LocationFromJson(j) ==
    IF j = JNull THEN None
    ELSE Location(j.lat, j.lon, IF j.elevation = JNull THEN None ELSE Float(j.elevation.num))

ActorToJson(a) ==
    [actor_id |-> a.actor_id, role |-> a.role, description |-> a.description,
     resolution |-> ResolutionValue(a.resolution), assets |-> a.assets,
     objectives |-> a.objectives, location |-> LocationToJson(a.location),
     attributes |-> a.attributes, status |-> a.status]
ActorFromJson(j) ==
    [actor_id |-> j.actor_id, role |-> j.role, description |-> j.description,
     resolution |-> ResolutionOf(j.resolution), assets |-> j.assets,
     objectives |-> j.objectives, location |-> LocationFromJson(j.location),
     attributes |-> j.attributes, status |-> j.status]

ModelDumpJson(ws) ==
    [simulation_id |-> ws.simulation_id, environment |-> ws.environment,
     actors |-> [a \in DOMAIN ws.actors |-> ActorToJson(ws.actors[a])],
     assets |-> ws.assets, last_updated |-> IsoFormat(ws.last_updated),
     metadata |-> ws.metadata]
WorldStateFromJson(j) ==
    [simulation_id |-> j.simulation_id, environment |-> j.environment,
     actors |-> [a \in DOMAIN j.actors |-> ActorFromJson(j.actors[a])],
     assets |-> j.assets, last_updated |-> FromIsoFormat(j.last_updated),
     metadata |-> j.metadata]

(***************************************************************************)
(* DuckDBStateManager.  db.snapshots is world_state_snapshots keyed by its *)
(* primary key "<sim>_cycle_<cycle>", db.environment is keyed by the       *)
(* primary key "<sim>_env", db.entities by the primary key id alone.       *)
(* DuckDB runs every execute() in its own transaction (autocommit), so a   *)
(* call that raises at its k-th statement keeps the statements before it.  *)
(***************************************************************************)
EmptyDb == [snapshots |-> EmptyDict, environment |-> EmptyDict, entities |-> EmptyDict]

\* Iteration order of the actors and assets dicts
IdOrder == <<"a1", "a2", "x1">>
KeysInOrder(f) == SelectSeq(IdOrder, LAMBDA i : i \in DOMAIN f)

Geometry(location) ==
    IF location = None THEN None ELSE [x |-> location.lon, y |-> location.lat]

ActorRow(sim, id, actor) ==
    [id |-> id, simulation_id |-> sim, entity_type |-> "actor", name |-> actor.role,
     description |-> actor.description, geometry |-> Geometry(actor.location),
     properties |-> [role |-> actor.role, resolution |-> ResolutionValue(actor.resolution),
                     assets |-> actor.assets, objectives |-> actor.objectives,
                     attributes |-> actor.attributes],
     status |-> actor.status]

AssetRow(sim, id, asset) ==
    [id |-> id, simulation_id |-> sim, entity_type |-> "asset", name |-> asset.name,
     description |-> "", geometry |-> Geometry(GetLocationObj(asset)),
     properties |-> [asset_type |-> asset.asset_type, attributes |-> asset.attributes],
     status |-> asset.status]

\* INSERT OR REPLACE INTO entities: the row replaces any row with the same id
UpsertEntity(entities, row) == Put(entities, row.id, row)

\* The rows save_world_state upserts, in order: the actors, then the assets
EntityRows(sim, ws) ==
    LET ak == KeysInOrder(ws.actors)
        sk == KeysInOrder(ws.assets)
    IN  [i \in 1..Len(ak) |-> ActorRow(sim, ak[i], ws.actors[ak[i]])]
        \o [i \in 1..Len(sk) |-> AssetRow(sim, sk[i], ws.assets[sk[i]])]

RECURSIVE UpsertAll(_, _, _)
UpsertAll(entities, rows, n) ==
    IF n = 0 THEN entities
    ELSE UpsertEntity(UpsertAll(entities, rows, n - 1), rows[n])

EnvironmentRow(sim, ws) ==
    [simulation_id |-> sim, cycle |-> ws.environment.cycle,
     time_of_day |-> ws.environment.time, weather |-> ws.environment.weather,
     global_events |-> ws.environment.global_events,
     terrain_modifiers |-> ws.environment.terrain_modifiers]

\* The primary key of a snapshot row, f"{simulation_id}_cycle_{cycle}": one
\* string per pair, since the pair can be read back from it
SnapshotId(sim, cycle) == <<sim, cycle>>

\* A row of world_state_snapshots without its id
SnapshotRow(sim, cycle, state_json) ==
    [simulation_id |-> sim, cycle |-> cycle, state_json |-> state_json]

\* INSERT OR REPLACE INTO a table with primary key id
InsertAlways(tbl, id, row) ==
    Put(tbl, IF id \in DOMAIN tbl THEN id \o <<Cardinality(DOMAIN tbl)>> ELSE id, row)
InsertOrReplace(tbl, id, row) == Put(tbl, id, row)

\* The ids of the snapshot rows of a simulation, of one cycle
SnapshotsOf(d, sim) == {k \in DOMAIN d.snapshots : d.snapshots[k].simulation_id = sim}
SnapshotsAt(d, sim, cycle) == {k \in SnapshotsOf(d, sim) : d.snapshots[k].cycle = cycle}

\* Number of SQL statements a save of ws executes
SaveStatements(sim, ws) == 2 + Len(EntityRows(sim, ws))

\* save_world_state; failAt = 0: every statement succeeds, failAt = k: the
\* k-th statement raises and the call ends there
SaveWorldState(d, sim, ws, failAt) ==
    LET done == IF failAt = 0 THEN SaveStatements(sim, ws) ELSE failAt - 1
        cycle == ws.environment.cycle
    IN  [snapshots |-> IF done >= 1
                       THEN InsertOrReplace(d.snapshots, SnapshotId(sim, cycle),
                                            SnapshotRow(sim, cycle, ModelDumpJson(ws)))
                       ELSE d.snapshots,
         environment |-> IF done >= 2
                         THEN Put(d.environment, sim, EnvironmentRow(sim, ws))
                         ELSE d.environment,
         entities |-> IF done >= 3
                      THEN UpsertAll(d.entities, EntityRows(sim, ws), done - 2)
                      ELSE d.entities]

\* Python truth value of "lat and lon" for the columns ST_Y, ST_X (NULL or a float)
LatAndLon(geometry) == geometry # None /\ geometry.y # 0 /\ geometry.x # 0

\* _reconstruct_world_state
ReconstructWorldState(d, sim, now) ==
    IF sim \notin DOMAIN d.environment THEN None
    ELSE
    LET env == d.environment[sim]
        live(type) == {i \in DOMAIN d.entities :
                          /\ d.entities[i].simulation_id = sim
                          /\ d.entities[i].entity_type = type
                          /\ d.entities[i].status # "deleted"}
        actor(i) == LET r == d.entities[i] IN
            [actor_id |-> i, role |-> r.properties.role, description |-> r.description,
             resolution |-> ResolutionOf(r.properties.resolution),
             assets |-> r.properties.assets, objectives |-> r.properties.objectives,
             location |-> IF LatAndLon(r.geometry)
                          THEN Location(r.geometry.y, r.geometry.x, None) ELSE None,
             attributes |-> r.properties.attributes, status |-> r.status]
        asset(i) == LET r == d.entities[i] IN
            [asset_id |-> i, name |-> r.name, asset_type |-> r.properties.asset_type,
             location |-> IF LatAndLon(r.geometry)
                          THEN [lat |-> r.geometry.y, lon |-> r.geometry.x] ELSE EmptyDict,
             attributes |-> r.properties.attributes, status |-> r.status]
    IN  WorldState(sim,
                   [cycle |-> env.cycle, time |-> env.time_of_day, weather |-> env.weather,
                    global_events |-> env.global_events,
                    terrain_modifiers |-> env.terrain_modifiers],
                   [i \in live("actor") |-> actor(i)],
                   [i \in live("asset") |-> asset(i)],
                   now, EmptyDict)

\* get_world_state(cycle) with an explicit cycle
GetWorldStateAtIgnoreCycle(d, sim, cycle, now) == ReconstructWorldState(d, sim, now)
GetWorldStateAt(d, sim, cycle, now) ==
    IF SnapshotsAt(d, sim, cycle) # {}
    THEN WorldStateFromJson(d.snapshots[CHOOSE k \in SnapshotsAt(d, sim, cycle) : TRUE].state_json)
    ELSE ReconstructWorldState(d, sim, now)

SnapshotCycles(d, sim) == {d.snapshots[k].cycle : k \in SnapshotsOf(d, sim)}
MaxOf(S) == CHOOSE m \in S : \A x \in S : x <= m

\* get_world_state() without a cycle: ORDER BY cycle DESC LIMIT 1
GetWorldState(d, sim, now) ==
    IF SnapshotCycles(d, sim) # {}
    THEN LET top == SnapshotsAt(d, sim, MaxOf(SnapshotCycles(d, sim)))
         IN  WorldStateFromJson(d.snapshots[CHOOSE k \in top : TRUE].state_json)
    ELSE ReconstructWorldState(d, sim, now)

\* get_current_cycle: MAX(cycle) over the environment rows of the simulation
GetCurrentCycle(d, sim) ==
    IF sim \in DOMAIN d.environment THEN d.environment[sim].cycle ELSE 0

Restrict(f, S) == [x \in S |-> f[x]]

\* clear_simulation
ClearSimulationKeepsSnapshots(d, sim) ==
    [snapshots |-> d.snapshots,
     environment |-> Restrict(d.environment, (DOMAIN d.environment) \ {sim}),
     entities |-> Restrict(d.entities,
                           {i \in DOMAIN d.entities : d.entities[i].simulation_id # sim})]
ClearSimulation(d, sim) ==
    [snapshots |-> Restrict(d.snapshots, (DOMAIN d.snapshots) \ SnapshotsOf(d, sim)),
     environment |-> Restrict(d.environment, (DOMAIN d.environment) \ {sim}),
     entities |-> Restrict(d.entities,
                           {i \in DOMAIN d.entities : d.entities[i].simulation_id # sim})]

(***************************************************************************)
(* StoreSpec: save_world_state, clear_simulation and the reads, on one     *)
(* state manager.                                                          *)
(***************************************************************************)
Sim == "sim"
Now == DateTime(7)
NoSave == [ok |-> FALSE, ws |-> None]

Commander(id, location) ==
    Actor(id, "Commander", "Test commander", MACRO, <<"x1">>, location, "active")
Scout(id) == Actor(id, "Scout", "", MICRO, <<>>, None, "active")
Truck(location) == Asset("x1", "Fire Truck", "Ground Unit", location, "active")

\* The shapes of world the saves draw from: empty; a located commander with a
\* located asset and metadata; a commander on the equator with an unlocated
\* asset; two actors, one with an elevation
SampleShapes ==
    { [actors |-> EmptyDict, assets |-> EmptyDict, metadata |-> EmptyDict],
      [actors |-> [a \in {"a1"} |-> Commander(a, Location(34, -118, None))],
       assets |-> [x \in {"x1"} |-> Truck([lat |-> 34, lon |-> -118])],
       metadata |-> [scenario |-> "wildfire"]],
      [actors |-> [a \in {"a1"} |-> Commander(a, Location(0, 5, None))],
       assets |-> [x \in {"x1"} |-> Truck(EmptyDict)],
       metadata |-> EmptyDict],
      [actors |-> [a \in {"a1", "a2"} |->
                      IF a = "a1" THEN Commander(a, Location(34, -118, Float(10)))
                                  ELSE Scout(a)],
       assets |-> EmptyDict, metadata |-> EmptyDict] }

SampleWorlds ==
    { WorldState(Sim, Environment(c, "06:00", "Clear", <<>>), sh.actors, sh.assets,
                 DateTime(0), sh.metadata) : c \in 0..MaxCycle, sh \in SampleShapes }

StoreInitial ==
    /\ db = EmptyDb
    /\ lastSave = NoSave
    /\ nSaves = 0

\* save_world_state(ws) on the state manager
StoreSave ==
    /\ nSaves < MaxSaves
    /\ \E ws \in SampleWorlds : \E failAt \in 0..SaveStatements(Sim, ws) :
        /\ db' = SaveWorldState(db, Sim, ws, failAt)
        /\ lastSave' = [ok |-> failAt = 0, ws |-> ws]
    /\ nSaves' = nSaves + 1
    /\ UNCHANGED <<engineVars, libVars, memVars>>

\* clear_simulation() on the state manager
StoreClear ==
    /\ db # EmptyDb
    /\ db' = ClearSimulation(db, Sim)
    /\ lastSave' = NoSave
    /\ UNCHANGED <<nSaves, engineVars, libVars, memVars>>

(***************************************************************************)
(* MemoryStream: a bounded list of events.                                 *)
(***************************************************************************)
DefaultMaxEvents == 10000

\* MemoryStream.add_event: append, then drop the oldest beyond max_events
AddEvent(evs, event, maxEvents) ==
    LET appended == Append(evs, event)
    IN  IF Len(appended) > maxEvents THEN Tail(appended) ELSE appended

\* MemoryStream.add_adjudication
AddAdjudication(evs, content, cycle) ==
    AddEvent(evs, [event_type |-> "adjudication", content |-> content, cycle |-> cycle],
             DefaultMaxEvents)

(***************************************************************************)
(* Archon: the agent cache and run_cycle.                                  *)
(***************************************************************************)
Archons == {"A1"}

\* _get_or_create_agent for the actors ids[1..n] in turn; agent objects are
\* identified by the numbers an allocator hands out
GetOrCreateAgentsFresh(cache, next, ids, n) ==
    [cache |-> [a \in (DOMAIN cache) \cup {ids[i] : i \in 1..n} |->
                   IF \E i \in 1..n : ids[i] = a
                   THEN next + (CHOOSE i \in 1..n : ids[i] = a) - 1
                   ELSE cache[a]],
     next |-> next + n]
RECURSIVE GetOrCreateAgents(_, _, _, _)
GetOrCreateAgents(cache, next, ids, n) ==
    IF n = 0 THEN [cache |-> cache, next |-> next]
    ELSE LET r == GetOrCreateAgents(cache, next, ids, n - 1)
         IN  IF ids[n] \in DOMAIN r.cache THEN r
             ELSE [cache |-> Put(r.cache, ids[n], r.next), next |-> r.next + 1]

\* The outcomes of Archon.run_cycle: "ok" - the three nodes ran and the LLM
\* answered; "llm_error" - the summarizing LLM call raised, which the
\* adjudication node catches; "raise" - the feasibility node raised, which
\* run_cycle lets through

\* A text known by its fixed prefix and what follows it
Text(prefix, rest) == [prefix |-> prefix, rest |-> rest]

\* The summary of the adjudication node: the LLM's answer, or
\* f"Archon Error: {e}" when the LLM call raised
Summary(outcome) ==
    IF outcome = "ok" THEN Text("", "Summary") ELSE Text("Archon Error: ", "llm")

\* bool(memory_stream): MemoryStream defines __len__ and no __bool__, so an
\* empty stream is false
StreamIsTruthy(evs) == Len(evs) > 0

\* The adjudication node's "if self.memory_stream: add_adjudication(...)"
RecordAdjudication(evs, content, cycle) ==
    IF StreamIsTruthy(evs) THEN AddAdjudication(evs, content, cycle) ELSE evs

\* _archon_adjudication_node's update of the world state
Adjudicated(ws, outcome) ==
    [ws EXCEPT !.environment.global_events = Append(@, Summary(outcome))]

(***************************************************************************)
(* SimulationEngine.                                                       *)
(***************************************************************************)
Tasks == {"loop", "t1", "t2"}

\* The stores an engine is created over: the cycles of the snapshots saved
\* into the store, in order, before the engine exists
SeedHistories == { <<>>, <<0, 1>>, <<1, 0>> }

SeedWorld(c) ==
    WorldState(Sim, Environment(c, "06:00", "Clear", <<>>),
               [a \in {"a1"} |-> Commander(a, Location(34, -118, None))], EmptyDict,
               DateTime(0), EmptyDict)

RECURSIVE SeedStore(_, _)
SeedStore(hist, n) ==
    IF n = 0 THEN EmptyDb
    ELSE SaveWorldState(SeedStore(hist, n - 1), Sim, SeedWorld(hist[n]), 0)

\* What happens inside a tick: the outcome of Archon.run_cycle, and the
\* statement of the save that fails (0: none, 1: the snapshot insert)
TickCases ==
    { [outcome |-> "ok", failAt |-> 0], [outcome |-> "ok", failAt |-> 1],
      [outcome |-> "llm_error", failAt |-> 0], [outcome |-> "raise", failAt |-> 0] }

MaxSnapshotCycle(d, sim) ==
    IF SnapshotCycles(d, sim) = {} THEN 0 ELSE MaxOf(SnapshotCycles(d, sim))

TickCount == Len(SelectSeq(tickLog, LAMBDA e : e.kind = "tick"))

\* The baseline of a tick: the loaded snapshot relabelled with the new cycle,
\* or a synthesized empty world
Baseline(d, n) ==
    LET loaded == GetWorldState(d, Sim, Now)
    IN  IF loaded # None THEN [loaded EXCEPT !.environment.cycle = n]
        ELSE WorldState(Sim, Environment(n, "12:00", "Clear", <<>>), EmptyDict, EmptyDict,
                        Now, EmptyDict)

\* save_adjudicated_state
SaveAdjudicatedStateDropped(d, ws, failAt) == d
SaveAdjudicatedState(d, ws, failAt) ==
    SaveWorldState(d, Sim, [ws EXCEPT !.last_updated = Now], failAt)

\* The summary async_step returns when run_cycle raised
ErrorSummaryArchon(msg) == Text("Archon Error: ", msg)
ErrorSummary(msg) == Text("Adjudication error: ", msg)

\* The summary async_step returns
ResultSummary(withArchon, outcome) ==
    IF ~withArchon THEN Text("", "No adjudication (Archon not attached)")
    ELSE IF outcome = "raise" THEN ErrorSummary("feasibility")
    ELSE Summary(outcome)

\* The status async_step returns: "Error" from the outer handler when
\* loading the baseline raised; a save that raised is logged and swallowed
TickStatusSaveFatal(loadRaised, saveRaised) ==
    IF loadRaised \/ saveRaised THEN "Error" ELSE "Adjudicated"
TickStatus(loadRaised, saveRaised) == IF loadRaised THEN "Error" ELSE "Adjudicated"

\* The cycle number a tick gives to its world state
\* self.steps += 1
TickCycleStale(s) == s
TickCycle(s) == s + 1

\* The body of async_step after the pause gate: it contains no await, so it
\* runs to its return without any other callback in between.
TickBody(outcome, failAt) ==
    LET n == TickCycle(steps) IN
    /\ TickCount < MaxTicks
    /\ steps' = n
    /\ IF closed
       THEN \* get_current_state raises on the closed connection: status "Error"
            /\ outcome = "ok" /\ failAt = 0
            /\ tickLog' = Append(tickLog, [kind |-> "tick", cycle |-> n,
                                           status |-> TickStatus(TRUE, FALSE),
                                           adjudicated |-> FALSE, saved |-> FALSE,
                                           outcome |-> "load_error", saveRaised |-> FALSE,
                                           before |-> steps, passedThrough |-> FALSE,
                                           summary |-> Text("Step failed: ", "closed")])
            /\ lastUsed' = EmptyDict
            /\ UNCHANGED <<db, agentCache, nextObj, events>>
       ELSE
       LET cur == Baseline(db, n)
           ids == KeysInOrder(cur.actors)
           withArchon == archon # "none"
           got == IF withArchon
                  THEN GetOrCreateAgents(agentCache[archon], nextObj, ids, Len(ids))
                  ELSE [cache |-> EmptyDict, next |-> nextObj]
           done == withArchon /\ outcome # "raise"
           final == IF done THEN Adjudicated(cur, outcome) ELSE cur
       IN  /\ withArchon \/ outcome = "ok"
           /\ agentCache' = IF withArchon THEN [agentCache EXCEPT ![archon] = got.cache]
                            ELSE agentCache
           /\ nextObj' = got.next
           /\ lastUsed' = IF withArchon THEN [a \in DOMAIN cur.actors |-> got.cache[a]]
                          ELSE EmptyDict
           /\ events' = IF done THEN RecordAdjudication(events, Summary(outcome), n)
                        ELSE events
           /\ db' = SaveAdjudicatedState(db, final, failAt)
           /\ tickLog' = Append(tickLog, [kind |-> "tick", cycle |-> final.environment.cycle,
                                          status |-> TickStatus(FALSE, failAt # 0),
                                          adjudicated |-> done, saved |-> failAt = 0,
                                          outcome |-> IF withArchon THEN outcome ELSE "none",
                                          saveRaised |-> failAt # 0,
                                          before |-> steps, passedThrough |-> final = cur,
                                          summary |-> ResultSummary(withArchon, outcome)])

\* async_step entered by task t: with the gate set, Event.wait() returns at
\* once and the body runs; otherwise the task joins the event's waiters
\* asyncio.Event.wait(): returns at once when the flag is set, else suspends
\* the task until set()
WaitNeverBlocks(flag) == TRUE
WaitReturnsAtOnce(flag) == flag

EnterStep(t, pcAfter) ==
    IF WaitReturnsAtOnce(gate)
    THEN /\ \E case \in TickCases : TickBody(case.outcome, case.failAt)
         /\ taskPc' = [taskPc EXCEPT ![t] = pcAfter]
         /\ UNCHANGED <<waiters, readyQ>>
    ELSE /\ waiters' = Append(waiters, t)
         /\ taskPc' = [taskPc EXCEPT ![t] = "gate"]
         /\ UNCHANGED <<db, steps, agentCache, nextObj, events, tickLog, lastUsed, readyQ>>

AfterStep(t) == IF t = "loop" THEN "sleep" ELSE "idle"

\* run_loop() up to its first suspension, started while no direct
\* async_step() call is pending
RunLoop ==
    /\ taskPc["loop"] = "idle"
    /\ taskPc["t1"] = "idle"
    /\ running' = TRUE
    /\ EnterStep("loop", "sleep")
    /\ cancelled' = FALSE
    /\ UNCHANGED <<paused, gate, closed, archon, startCycle, startSnapMax>>
    /\ UNCHANGED <<lastSave, nSaves, memVars, libVars>>

\* run_loop() after asyncio.sleep(interval): the while test, then the next
\* async_step or the end of the loop
LoopIter ==
    /\ taskPc["loop"] = "sleep"
    /\ IF running
       THEN EnterStep("loop", "sleep") /\ UNCHANGED running
       ELSE /\ taskPc' = [taskPc EXCEPT !["loop"] = "idle"]
            /\ running' = FALSE
            /\ UNCHANGED <<db, steps, agentCache, nextObj, events, tickLog, lastUsed,
                           waiters, readyQ>>
    /\ UNCHANGED <<paused, gate, closed, archon, startCycle, startSnapMax>>
    /\ cancelled' = FALSE
    /\ UNCHANGED <<lastSave, nSaves, memVars, libVars>>

\* async_step() awaited by a caller while run_loop is not active
DirectStep ==
    /\ taskPc["t1"] = "idle"
    /\ taskPc["loop"] = "idle"
    /\ EnterStep("t1", "idle")
    /\ UNCHANGED <<running, paused, gate, closed, archon, startCycle, startSnapMax>>
    /\ cancelled' = FALSE
    /\ UNCHANGED <<lastSave, nSaves, memVars, libVars>>

\* The event loop runs the first task whose wait() future Event.set() has
\* resolved: wait() returns True without reading the flag again
WakeTask ==
    /\ readyQ # <<>>
    /\ LET t == Head(readyQ) IN
        /\ readyQ' = Tail(readyQ)
        /\ taskPc' = [taskPc EXCEPT ![t] = AfterStep(t)]
    /\ \E case \in TickCases : TickBody(case.outcome, case.failAt)
    /\ UNCHANGED <<running, paused, gate, closed, archon, startCycle, startSnapMax,
                   waiters>>
    /\ cancelled' = FALSE

Wake == WakeTask /\ UNCHANGED <<lastSave, nSaves, memVars, libVars>>

\* pause()
Pause ==
    /\ paused' = TRUE
    /\ gate' = FALSE
    /\ UNCHANGED <<db, steps, running, closed, archon, taskPc, waiters, readyQ, agentCache,
                   nextObj, events, startCycle, startSnapMax, tickLog, lastUsed>>
    /\ cancelled' = FALSE
    /\ UNCHANGED <<lastSave, nSaves, memVars, libVars>>

\* Event.set(): the futures of the waiters are resolved in the order the
\* waiters arrived, each scheduling its task behind the ready ones
RECURSIVE Reversed(_)
Reversed(q) == IF q = <<>> THEN <<>> ELSE Append(Reversed(Tail(q)), Head(q))
ResolveWaitersLastFirst(ready, waiting) == ready \o Reversed(waiting)
ResolveWaiters(ready, waiting) == ready \o waiting

\* resume(): Event.set() resolves the future of every waiter unless the flag
\* is already set
Resume ==
    /\ paused' = FALSE
    /\ gate' = TRUE
    /\ IF gate THEN UNCHANGED <<waiters, readyQ, taskPc>>
       ELSE /\ readyQ' = ResolveWaiters(readyQ, waiters)
            /\ waiters' = <<>>
            /\ taskPc' = [t \in Tasks |-> IF taskPc[t] = "gate" THEN "woken" ELSE taskPc[t]]
    /\ UNCHANGED <<db, steps, running, closed, archon, agentCache, nextObj, events,
                   startCycle, startSnapMax, tickLog, lastUsed>>
    /\ cancelled' = FALSE
    /\ UNCHANGED <<lastSave, nSaves, memVars, libVars>>

\* stop()
Stop ==
    /\ running' = FALSE
    /\ UNCHANGED <<db, steps, paused, gate, closed, archon, taskPc, waiters, readyQ,
                   agentCache, nextObj, events, startCycle, startSnapMax, tickLog, lastUsed>>
    /\ cancelled' = FALSE
    /\ UNCHANGED <<lastSave, nSaves, memVars, libVars>>

\* _inject_memory_into_archon: hasattr(self.archon, 'set_memory_systems');
\* the archons of the model have the method, any other object does not
HasSetMemorySystems(a) == a \in Archons

\* attach_archon(a) on an engine whose archon field is current: the field
\* afterwards and the exception raised ("" for none)
AttachArchonResult(current, a) ==
    [archon |-> a, raised |-> IF HasSetMemorySystems(a) THEN "" ELSE "TypeError"]

\* attach_archon(archon)
AttachArchon ==
    /\ \E a \in Archons : archon' = AttachArchonResult(archon, a).archon
    /\ UNCHANGED <<db, steps, running, paused, gate, closed, taskPc, waiters, readyQ,
                   agentCache, nextObj, events, startCycle, startSnapMax, tickLog, lastUsed>>
    /\ cancelled' = FALSE
    /\ UNCHANGED <<lastSave, nSaves, memVars, libVars>>

\* clear_agent_cache() on the attached Archon
ClearAgentCache ==
    /\ archon # "none"
    /\ agentCache' = [agentCache EXCEPT ![archon] = EmptyDict]
    /\ UNCHANGED <<db, steps, running, paused, gate, closed, archon, taskPc, waiters,
                   readyQ, nextObj, events, startCycle, startSnapMax, tickLog, lastUsed>>
    /\ cancelled' = FALSE
    /\ UNCHANGED <<lastSave, nSaves, memVars, libVars>>

\* Whether async_step's outer "except Exception" handles the exception:
\* asyncio.CancelledError derives from BaseException
ExceptExceptionCatchesAll(exc) == TRUE
ExceptExceptionCatches(exc) == exc # "CancelledError"

\* Task.cancel() on the task running run_loop: CancelledError is raised at
\* the await where the task is suspended, the gate's wait() inside
\* async_step or asyncio.sleep(); run_loop logs it and its finally clause
\* sets running to False
CancelLoop ==
    /\ taskPc["loop"] \in {"gate", "woken", "sleep"}
    /\ waiters' = SelectSeq(waiters, LAMBDA t : t # "loop")
    /\ readyQ' = SelectSeq(readyQ, LAMBDA t : t # "loop")
    /\ IF taskPc["loop"] # "sleep" /\ ExceptExceptionCatches("CancelledError")
       THEN /\ TickCount < MaxTicks
            /\ tickLog' = Append(tickLog, [kind |-> "tick", cycle |-> steps,
                                           status |-> TickStatus(TRUE, FALSE),
                                           adjudicated |-> FALSE, saved |-> FALSE,
                                           outcome |-> "load_error", saveRaised |-> FALSE,
                                           before |-> steps, passedThrough |-> FALSE,
                                           summary |-> Text("Step failed: ", "")])
            /\ taskPc' = [taskPc EXCEPT !["loop"] = "sleep"]
            /\ UNCHANGED running
       ELSE /\ taskPc' = [taskPc EXCEPT !["loop"] = "idle"]
            /\ running' = FALSE
            /\ UNCHANGED tickLog
    /\ cancelled' = TRUE
    /\ UNCHANGED <<db, steps, paused, gate, closed, archon, agentCache, nextObj, events,
                   startCycle, startSnapMax, lastUsed>>
    /\ UNCHANGED <<lastSave, nSaves, memVars, libVars>>

\* engine.memory_stream.add_observation(...) by a client on the still empty
\* stream, before the first tick or reset: the engine and the Archon only
\* tell an empty stream from one that holds events
AddObservation ==
    /\ ~StreamIsTruthy(events)
    /\ tickLog = <<>>
    /\ events' = AddEvent(events, [event_type |-> "observation", content |-> Text("", "seen"),
                                   cycle |-> steps], DefaultMaxEvents)
    /\ UNCHANGED <<db, steps, running, paused, gate, closed, archon, taskPc, waiters, readyQ,
                   agentCache, nextObj, startCycle, startSnapMax, tickLog, lastUsed>>
    /\ cancelled' = FALSE
    /\ UNCHANGED <<lastSave, nSaves, memVars, libVars>>

\* reset(): steps = 0, then clear_simulation(), which raises on a closed store
Reset ==
    /\ steps' = 0
    /\ db' = IF closed THEN db ELSE ClearSimulation(db, Sim)
    /\ tickLog' = IF tickLog # <<>> /\ tickLog[Len(tickLog)].kind = "reset" THEN tickLog
                  ELSE Append(tickLog, [kind |-> "reset"])
    /\ UNCHANGED <<running, paused, gate, closed, archon, taskPc, waiters, readyQ,
                   agentCache, nextObj, events, startCycle, startSnapMax, lastUsed>>
    /\ cancelled' = FALSE
    /\ UNCHANGED <<lastSave, nSaves, memVars, libVars>>

\* shutdown(): stop(), then close the state manager
Shutdown ==
    /\ running' = FALSE
    /\ closed' = TRUE
    /\ UNCHANGED <<db, steps, paused, gate, archon, taskPc, waiters, readyQ, agentCache,
                   nextObj, events, startCycle, startSnapMax, tickLog, lastUsed>>
    /\ cancelled' = FALSE
    /\ UNCHANGED <<lastSave, nSaves, memVars, libVars>>

\* The memory bank and the direct-save history, untouched
Threads == {"w1", "w2"}
IdleThread == [pc |-> "idle", calls |-> 0]

MemIdle ==
    /\ table = <<>>
    /\ storedHashes = {}
    /\ lastRetrieval = None
    /\ lock = None
    /\ thr = [t \in Threads |-> IdleThread]
    /\ addResults = EmptyDict

\* No stream of its own, no call made
LibIdle ==
    /\ stream = None
    /\ call = None

\* SimulationEngine.__init__ over the store d
NewEngine(d) ==
    /\ steps = GetCurrentCycle(d, Sim)
    /\ running = FALSE
    /\ paused = FALSE
    /\ gate = TRUE
    /\ closed = FALSE
    /\ archon = "none"
    /\ taskPc = [t \in Tasks |-> "idle"]
    /\ waiters = <<>>
    /\ readyQ = <<>>
    /\ agentCache = [a \in Archons |-> EmptyDict]
    /\ nextObj = 1
    /\ events = <<>>
    /\ startCycle = steps
    /\ startSnapMax = MaxSnapshotCycle(d, Sim)
    /\ tickLog = <<>>
    /\ lastUsed = EmptyDict
    /\ cancelled = FALSE

Init ==
    /\ \E hist \in SeedHistories : db = SeedStore(hist, Len(hist))
    /\ lastSave = NoSave
    /\ nSaves = 0
    /\ NewEngine(db)
    /\ MemIdle
    /\ LibIdle

Next ==
    \/ RunLoop
    \/ LoopIter
    \/ DirectStep
    \/ Wake
    \/ Pause
    \/ Resume
    \/ Stop
    \/ AttachArchon
    \/ ClearAgentCache
    \/ Reset
    \/ Shutdown
    \/ AddObservation
    \/ CancelLoop

Spec == Init /\ [][Next]_vars

\* The event loop's scheduling: a sleep that was started ends, and a task
\* whose wait() was resolved is run; calls made by the engine's clients
\* (pause, resume, stop, ...) are under no obligation to happen
FairSpec == Spec /\ WF_vars(LoopIter) /\ WF_vars(Wake)

StoreInit ==
    /\ StoreInitial
    /\ NewEngine(EmptyDb)
    /\ MemIdle
    /\ LibIdle

StoreNext == StoreSave \/ StoreClear

StoreSpec == StoreInit /\ [][StoreNext]_vars

(***************************************************************************)
(* Properties of the tick engine.                                          *)
(***************************************************************************)
Last(seq) == seq[Len(seq)]
IsTick(e) == e.kind = "tick"
Succeeded(e) == e.status = "Adjudicated" /\ e.saved

\* A step in which a tick body runs
TickStep == Len(tickLog') = Len(tickLog) + 1 /\ IsTick(Last(tickLog'))

\* The cycles of the snapshots persisted by the ticks of a log, in order
PersistedCycles(log) ==
    LET saved == SelectSeq(log, LAMBDA e : IsTick(e) /\ e.saved)
    IN  [i \in 1..Len(saved) |-> saved[i].cycle]

AllTicksSucceed(log) == \A i \in 1..Len(log) : IsTick(log[i]) => Succeeded(log[i])

StrictlyIncreasingFrom(cycles, base) ==
    /\ cycles # <<>> => cycles[1] = base + 1
    /\ \A i, j \in 1..Len(cycles) : i < j => cycles[i] < cycles[j]

\* The part of the log after the last reset(), and the cycle it starts from
LastReset == IF \E i \in 1..Len(tickLog) : ~IsTick(tickLog[i])
             THEN CHOOSE i \in 1..Len(tickLog) :
                     ~IsTick(tickLog[i]) /\ \A j \in i + 1..Len(tickLog) : IsTick(tickLog[j])
             ELSE 0
SinceReset == SubSeq(tickLog, LastReset + 1, Len(tickLog))
BaseCycle == IF LastReset = 0 THEN startCycle ELSE 0

\* C1 as stated: if every tick of the engine succeeded, the cycles of the
\* snapshots those ticks persisted are strictly increasing and the first is
\* the engine's cycle at start plus 1.
C1_AsStated ==
    AllTicksSucceed(tickLog) => StrictlyIncreasingFrom(PersistedCycles(tickLog), startCycle)

\* C1 amended: for the ticks since the engine was created or last reset, if
\* every one succeeded, the cycles of the snapshots they persisted are
\* strictly increasing and the first is 1 more than the cycle the engine
\* started from (its cycle at creation, or 0 after reset()).
C1_CycleMonotonicity ==
    AllTicksSucceed(SinceReset) => StrictlyIncreasingFrom(PersistedCycles(SinceReset), BaseCycle)

C1_Witness ==
    /\ startCycle = 1
    /\ Len(tickLog) = 2
    /\ AllTicksSucceed(tickLog)
    /\ \A i \in 1..2 : IsTick(tickLog[i])
    /\ PersistedCycles(tickLog) = <<2, 3>>

\* C2: while the engine is paused (pause() called, resume() not called
\* since), no step writes a snapshot to the store.
C2_PauseQuiescence ==
    [][paused => \A k \in DOMAIN db'.snapshots :
                    k \in DOMAIN db.snapshots /\ db'.snapshots[k] = db.snapshots[k]]_vars

AdjudicationEvents(c) ==
    {j \in 1..Len(events) : events[j].event_type = "adjudication" /\ events[j].cycle = c}

\* C3: for every cycle in which an adjudication took place the stream holds
\* exactly one ADJUDICATION event of that cycle.
C3_OneAdjudicationEvent ==
    \A i \in 1..Len(tickLog) :
        IsTick(tickLog[i]) /\ tickLog[i].adjudicated
            => Cardinality(AdjudicationEvents(tickLog[i].cycle)) = 1

SnapshotCycle(j) == j.environment.cycle

\* No two snapshots of one simulation carry the same cycle
TotallyOrdered ==
    \A k1, k2 \in DOMAIN db.snapshots :
        (/\ db.snapshots[k1].simulation_id = db.snapshots[k2].simulation_id
         /\ SnapshotCycle(db.snapshots[k1].state_json)
               = SnapshotCycle(db.snapshots[k2].state_json))
            => k1 = k2

PreviousIsTick == tickLog # <<>> /\ IsTick(Last(tickLog))

C9_StartsAtMaxSnapshot == startCycle = startSnapMax

\* A tick taken by run_loop: ticks of direct callers leave the loop idle
LoopTick == TickStep /\ (taskPc["loop"] # "idle" \/ taskPc'["loop"] # "idle")

\* The ticks in which the attached Archon ended with the given outcome
TicksWith(outcome) ==
    {i \in DOMAIN tickLog : IsTick(tickLog[i]) /\ tickLog[i].outcome = outcome}

C14_LlmFailurePassesThrough ==
    \A i \in TicksWith("llm_error") :
        /\ tickLog[i].status = "Adjudicated"
        /\ tickLog[i].cycle = tickLog[i].before + 1
        /\ tickLog[i].summary.prefix = "Adjudication error: "
        /\ tickLog[i].passedThrough

\* C15: when writing the snapshot fails the tick still returns its result
\* (status "Adjudicated" for the incremented cycle) instead of raising, and
\* a run loop that took the tick goes on to its sleep and next iteration.
C15_SaveFailureSwallowed ==
    [][TickStep /\ Last(tickLog').saveRaised =>
          /\ Last(tickLog').status = "Adjudicated"
          /\ Last(tickLog').cycle = steps + 1
          /\ steps' = steps + 1
          /\ LoopTick => taskPc'["loop"] = "sleep" /\ (running => running')]_vars

\* A step in which run_loop returns
LoopExit == taskPc["loop"] # "idle" /\ taskPc'["loop"] = "idle"

C15_Witness ==
    /\ Len(tickLog) = 2
    /\ IsTick(tickLog[1]) /\ tickLog[1].saveRaised
    /\ IsTick(tickLog[2]) /\ tickLog[2].saved
    /\ tickLog[2].cycle = tickLog[1].cycle + 1
    /\ taskPc["loop"] = "sleep" /\ running

\* C17: cancelling the run loop makes it exit without starting or cutting
\* short a tick: the cancellation step runs no tick body and changes neither
\* the counter nor the store, and every tick that starts runs to its end
\* (counter advanced by one, result recorded, save attempted).
C17_CancelNeverAbortsTick ==
    [][/\ CancelLoop => /\ LoopExit /\ ~running'
                        /\ tickLog' = tickLog /\ steps' = steps /\ db' = db
       /\ TickStep => /\ steps' = steps + 1
                      /\ Last(tickLog').cycle = steps'
                      /\ \/ Last(tickLog').status = "Error"
                         \/ Last(tickLog').saved
                         \/ Last(tickLog').saveRaised]_vars

\* C16: from the running and from the paused state alike, stop() takes the
\* engine back to ready: once running has been cleared under an active run
\* loop (with a tick left in the budget of the model), run_loop returns.
C16_StopReturnsToReady ==
    (~running /\ taskPc["loop"] # "idle" /\ TickCount < MaxTicks) ~> (taskPc["loop"] = "idle")

\* C18: the closed state is terminal: once shutdown() has been called, no
\* later operation makes the engine running or paused again or starts its
\* loop, and no further snapshot is written.
C18_ClosedIsTerminal ==
    [][closed => /\ closed'
                 /\ ~running'
                 /\ paused' => paused
                 /\ taskPc["loop"] = "idle" => taskPc'["loop"] = "idle"
                 /\ db'.snapshots = db.snapshots]_vars

\* A step in which a task blocks at the pause gate
BlocksAtGate == \E t \in Tasks : taskPc[t] # "gate" /\ taskPc'[t] = "gate"

C17_Witness ==
    /\ Len(tickLog) = 1 /\ IsTick(tickLog[1]) /\ tickLog[1].saved
    /\ cancelled /\ taskPc["loop"] = "idle" /\ ~running
    /\ steps = tickLog[1].cycle
    /\ <<Sim, steps>> \in DOMAIN db.snapshots

\* C19: the pause gate is consulted only at the start of a tick: a tick body
\* starts only for a task that found the gate open or was released by
\* set(), it then runs to its end without any task being parked at the
\* gate, and a task that is parked at the gate has run no part of a tick.
C19_GateOnlyAtTickStart ==
    [][/\ TickStep => /\ gate \/ (readyQ # <<>> /\ readyQ' = Tail(readyQ))
                      /\ steps' = steps + 1
                      /\ Last(tickLog').before = steps
                      /\ ~BlocksAtGate
                      /\ waiters' = waiters
       /\ BlocksAtGate => /\ ~gate
                          /\ tickLog' = tickLog /\ steps' = steps /\ db' = db
                          /\ events' = events]_vars

C19_Witness ==
    /\ Len(tickLog) = 1 /\ IsTick(tickLog[1]) /\ tickLog[1].saved
    /\ paused /\ ~gate
    /\ taskPc["loop"] = "gate" /\ waiters = <<"loop">>
    /\ steps = tickLog[1].cycle

(***************************************************************************)
(* StoreSpec properties.                                                   *)
(***************************************************************************)
ModuloLastUpdated(ws) == IF ws = None THEN None ELSE [ws EXCEPT !.last_updated = DateTime(0)]

\* C6: after save_world_state(ws) returns, get_world_state(ws.environment.cycle)
\* equals ws except for last_updated.
C6_SaveGetRoundTrip ==
    lastSave.ok =>
        ModuloLastUpdated(GetWorldStateAt(db, Sim, lastSave.ws.environment.cycle, Now))
            = ModuloLastUpdated(lastSave.ws)

C6_Witness ==
    /\ lastSave.ok
    /\ nSaves = 2
    /\ lastSave.ws.metadata # EmptyDict
    /\ lastSave.ws.environment.cycle < MaxOf(SnapshotCycles(db, Sim))

\* C20: a simulation has at most one stored snapshot per cycle: no two rows
\* of world_state_snapshots agree on simulation_id and cycle, and after a
\* save the one row of the saved cycle holds the state just saved, whether
\* or not that cycle had a snapshot before.
C20_OneSnapshotPerCycle ==
    /\ \A k1, k2 \in DOMAIN db.snapshots :
          (/\ db.snapshots[k1].simulation_id = db.snapshots[k2].simulation_id
           /\ db.snapshots[k1].cycle = db.snapshots[k2].cycle) => k1 = k2
    /\ lastSave.ok =>
          \A k \in SnapshotsAt(db, Sim, lastSave.ws.environment.cycle) :
              db.snapshots[k].state_json = ModelDumpJson(lastSave.ws)

\* The latest save replaced a snapshot of its cycle written by an earlier save
C20_Witness ==
    /\ lastSave.ok
    /\ nSaves = 2
    /\ Cardinality(DOMAIN db.snapshots) = 1
    /\ SnapshotsAt(db, Sim, lastSave.ws.environment.cycle) # {}

\* C21: save_world_state is all-or-nothing: a call that fails part-way
\* leaves none of its snapshot, environment or entity writes in the store.
C21_SaveAllOrNothing ==
    [][nSaves' = nSaves + 1 /\ ~lastSave'.ok => db' = db]_vars

\* A tick that loaded its baseline from a store holding snapshots
LoadingTick ==
    /\ TickStep
    /\ Last(tickLog').outcome # "load_error"
    /\ SnapshotCycles(db, Sim) # {}

\* C34: the snapshot a tick loads as its baseline is the one written by the
\* most recent successful save, whose cycle the environment row holds, never
\* an older one, across any sequence of saves, ticks and engine restarts.
C34_BaselineIsLatestSave ==
    [][LoadingTick =>
          GetWorldState(db, Sim, Now).environment.cycle = GetCurrentCycle(db, Sim)]_vars

\* C35: after stop() no new tick of the loop starts: a tick of the loop task
\* that writes to the store is made only while running is set; in particular
\* a loop stopped while paused writes nothing when it is later resumed.
C35_NoTickAfterStop ==
    [][(LoopTick /\ db' # db) => running']_vars

\* C36: whenever a tick returns status "Adjudicated" for cycle n, a snapshot
\* with environment.cycle = n is in the state store when the tick returns.
C36_AdjudicatedIsStored ==
    (PreviousIsTick /\ Last(tickLog).status = "Adjudicated") =>
        \E k \in SnapshotsOf(db, Sim) :
            /\ db.snapshots[k].cycle = TickCycle(Last(tickLog).before)
            /\ SnapshotCycle(db.snapshots[k].state_json) = TickCycle(Last(tickLog).before)

\* C37: get_world_state(c) with an explicit cycle c returns either the
\* snapshot saved for cycle c or nothing, never a state whose
\* environment.cycle differs from c.
C37_ExplicitCycleOrNothing ==
    \A c \in 0..(MaxCycle + 1) :
        LET ws == GetWorldStateAt(db, Sim, c, Now)
        IN  ws # None => ws.environment.cycle = c

\* What the reads of the state manager of simulation sim return on the store d
ReadsOf(d, sim) ==
    [latest |-> GetWorldState(d, sim, Now),
     reconstructed |-> ReconstructWorldState(d, sim, Now),
     current_cycle |-> GetCurrentCycle(d, sim),
     at |-> [c \in 0..MaxCycle |-> GetWorldStateAt(d, sim, c, Now)]]

\* A second simulation on the same store, whose world uses the actor id "a1" too
OtherSim == "sim2"
OtherWorld == [SeedWorld(1) EXCEPT !.simulation_id = OtherSim]

\* C38: saving or clearing under another simulation_id never changes what a
\* read under this simulation_id returns, also when both simulations use the
\* same actor ids.
C38_SimulationsIsolated ==
    /\ ReadsOf(SaveWorldState(db, OtherSim, OtherWorld, 0), Sim) = ReadsOf(db, Sim)
    /\ ReadsOf(ClearSimulation(db, OtherSim), Sim) = ReadsOf(db, Sim)

\* C28: after reset() on an engine that was not shut down, steps is 0,
\* get_current_cycle() returns 0 and get_current_state() returns nothing,
\* whatever ticks and saves came before.
AfterReset == tickLog # <<>> /\ ~IsTick(Last(tickLog)) /\ ~closed

C28_ResetClears ==
    AfterReset =>
        /\ steps = 0
        /\ GetCurrentCycle(db, Sim) = 0
        /\ GetWorldState(db, Sim, Now) = None

\* A reset after a tick that saved its state, on a store seeded with snapshots
C28_Witness ==
    /\ AfterReset
    /\ Len(tickLog) >= 2
    /\ Succeeded(tickLog[Len(tickLog) - 1])
    /\ startSnapMax > 0

\* C10: after save_world_state(ws) returns, the world reconstructed from the
\* environment and entity rows equals ws except for last_updated.
C10_ReconstructEqualsSaved ==
    lastSave.ok =>
        ModuloLastUpdated(ReconstructWorldState(db, Sim, Now)) = ModuloLastUpdated(lastSave.ws)

(***************************************************************************)
(* LanceDBMemoryBank and ScopeFilter.  A text is a sequence of characters; *)
(* the table is the list of its rows in insertion order and outlives the   *)
(* bank object; the md5 digest of "<text>:<owner>:<scope>" is represented  *)
(* by the triple it is computed from.                                      *)
(***************************************************************************)
PUBLIC == [enum |-> "MemoryScope.PUBLIC"]
PRIVATE == [enum |-> "MemoryScope.PRIVATE"]
SHARED_GROUP == [enum |-> "MemoryScope.SHARED_GROUP"]
ScopeValue(scope) ==
    IF scope = PUBLIC THEN "public" ELSE IF scope = PRIVATE THEN "private" ELSE "shared_group"

\* An Optional[str] argument that is given
Some(x) == [some |-> x]

\* x or ""
OrEmpty(x) == IF x = None THEN "" ELSE x.some

\* text.replace('\n', ' ')
ReplaceNewlines(text) == [i \in 1..Len(text) |-> IF text[i] = "\n" THEN " " ELSE text[i]]

\* str.strip()
RECURSIVE Strip(_)
Strip(text) ==
    IF text = <<>> THEN text
    ELSE IF Head(text) = " " THEN Strip(Tail(text))
    ELSE IF text[Len(text)] = " " THEN Strip(SubSeq(text, 1, Len(text) - 1))
    ELSE text

CleanText(text) == Strip(ReplaceNewlines(text))

\* _compute_hash
ComputeHash(text, owner_id, scope) == <<text, OrEmpty(owner_id), ScopeValue(scope)>>

MemoryRow(text, scope, owner_id, group_id) ==
    [text |-> text, scope |-> ScopeValue(scope), owner_id |-> OrEmpty(owner_id),
     group_id |-> OrEmpty(group_id)]

\* add: the table and hash set afterwards, and the value returned
AddUnchecked(bank, text, scope, owner_id, group_id) ==
    [table |-> Append(bank.table, MemoryRow(CleanText(text), scope, owner_id, group_id)),
     hashes |-> bank.hashes \cup {ComputeHash(CleanText(text), owner_id, scope)},
     added |-> TRUE]
Add(bank, text, scope, owner_id, group_id) ==
    LET clean == CleanText(text)
        content_hash == ComputeHash(clean, owner_id, scope)
    IN  IF clean = <<>> \/ content_hash \in bank.hashes
        THEN [table |-> bank.table, hashes |-> bank.hashes, added |-> FALSE]
        ELSE [table |-> Append(bank.table, MemoryRow(clean, scope, owner_id, group_id)),
              hashes |-> bank.hashes \cup {content_hash}, added |-> TRUE]

\* extend: add() for texts[1..n] in turn
RECURSIVE Extend(_, _, _, _, _)
Extend(bank, texts, n, scope, owner_id) ==
    IF n = 0 THEN bank
    ELSE Add(Extend(bank, texts, n - 1, scope, owner_id), texts[n], scope, owner_id, None)

ScopeFilter(agent_id, groups, include_public) ==
    [agent_id |-> agent_id, groups |-> groups, include_public |-> include_public]

\* The rows selected by the SQL text build_lancedb_filter returns; string
\* comparison in the filter is case-sensitive
BuildLanceDbFilterNoFilter(f, row) == TRUE
BuildLanceDbFilter(f, row) ==
    \/ f.include_public /\ row.scope = "PUBLIC"
    \/ row.scope = "PRIVATE" /\ row.owner_id = f.agent_id
    \/ f.groups # {} /\ row.scope = "SHARED_GROUP" /\ row.group_id \in f.groups
    \/ row.scope = "SHARED_GROUP" /\ row.owner_id = f.agent_id

Min(a, b) == IF a < b THEN a ELSE b

\* retrieve_associative: the sets of rows it can return, whatever the
\* embedding makes of the query: the k nearest that pass the filter among
\* the 2k nearest
RetrieveAssociative(tbl, k, scope_filter) ==
    IF k <= 0 THEN {{}}
    ELSE LET all == 1..Len(tbl)
             nearest == {T \in SUBSET all : Cardinality(T) = Min(2 * k, Len(tbl))}
             passing(T) == IF scope_filter = None THEN T
                           ELSE {i \in T : BuildLanceDbFilter(scope_filter, tbl[i])}
         IN  UNION { {R \in SUBSET passing(T) : Cardinality(R) = Min(k, Cardinality(passing(T)))}
                     : T \in nearest }

\* retrieve_recent, scan and get_all_memories_as_text load the table into a
\* DataFrame; with a scope filter and a non-empty table _apply_pandas_filter
\* reads scope_filter.requesting_agent_id, which ScopeFilter does not have,
\* and the call raises AttributeError
PandasRaises(tbl, scope_filter) == tbl # <<>> /\ scope_filter # None

\* retrieve_recent: the k most recently added rows
RetrieveRecent(tbl, k, scope_filter) ==
    IF k <= 0 \/ PandasRaises(tbl, scope_filter) THEN {}
    ELSE {i \in 1..Len(tbl) : i > Len(tbl) - k}

\* get_all_memories_as_text: every row
GetAllMemoriesAsText(tbl, scope_filter) ==
    IF PandasRaises(tbl, scope_filter) THEN {} ELSE 1..Len(tbl)

\* scan: the rows whose text the selector accepts
Scan(tbl, selector, scope_filter) ==
    IF PandasRaises(tbl, scope_filter) THEN {}
    ELSE {i \in 1..Len(tbl) : tbl[i].text \in selector}

(***************************************************************************)
(* MemSpec: one memory table, the bank object opened over it, and the      *)
(* retrievals agents make.                                                 *)
(***************************************************************************)
Fire == <<"f">>
Smoke == <<"s">>

\* The calls of add(): text, scope, owner_id, group_id
SampleMemories ==
    { [text |-> Fire, scope |-> PRIVATE, owner_id |-> Some("A"), group_id |-> None],
      [text |-> <<" ", "f", "\n">>, scope |-> PRIVATE, owner_id |-> Some("A"), group_id |-> None],
      [text |-> Fire, scope |-> PRIVATE, owner_id |-> Some("B"), group_id |-> None],
      [text |-> Fire, scope |-> PUBLIC, owner_id |-> None, group_id |-> None],
      [text |-> Smoke, scope |-> SHARED_GROUP, owner_id |-> Some("A"), group_id |-> Some("g")],
      [text |-> <<" ", "\n">>, scope |-> PRIVATE, owner_id |-> Some("A"), group_id |-> None] }

\* The calls of extend(): texts, scope, owner_id
SampleBatches ==
    { [texts |-> <<Fire, <<"f", "\n">>>>, scope |-> PRIVATE, owner_id |-> Some("A")],
      [texts |-> <<Smoke, Fire>>, scope |-> PUBLIC, owner_id |-> None] }

\* The checkpoints handed to set_state()
SampleCheckpoints ==
    { {}, {ComputeHash(Fire, Some("A"), PRIVATE)},
      {ComputeHash(Fire, Some("A"), PRIVATE), ComputeHash(Fire, None, PUBLIC)} }

SampleFilters ==
    {None} \cup {ScopeFilter(a, g, TRUE) : a \in {"A", "B"}, g \in {{}, {"g"}}}

Bank == [table |-> table, hashes |-> storedHashes]

Retrieval(op, scope_filter, rows, raised) ==
    [op |-> op, scope_filter |-> scope_filter, rows |-> rows, raised |-> raised]

MemInit ==
    /\ db = EmptyDb
    /\ lastSave = NoSave
    /\ nSaves = 0
    /\ NewEngine(EmptyDb)
    /\ MemIdle
    /\ LibIdle

\* What is remembered of an add() call: its arguments, the value returned,
\* the row count before and after, whether its hash was stored before, and
\* the same of the add() call made directly before it, if any
AddCall(m, r, prev) ==
    [op |-> "add", scope_filter |-> None, rows |-> {}, raised |-> FALSE,
     call |-> m, added |-> r.added, before |-> Len(table), after |-> Len(r.table),
     known |-> ComputeHash(CleanText(m.text), m.owner_id, m.scope) \in storedHashes,
     prev |-> prev]

PreviousAdd ==
    IF lastRetrieval # None /\ lastRetrieval.op = "add"
    THEN [lastRetrieval EXCEPT !.prev = None] ELSE None

\* add(text, scope, owner_id, group_id)
MemAdd ==
    /\ Len(table) < MaxRows
    /\ \E m \in SampleMemories :
         LET r == Add(Bank, m.text, m.scope, m.owner_id, m.group_id) IN
         /\ table' = r.table
         /\ storedHashes' = r.hashes
         /\ lastRetrieval' = AddCall(m, r, PreviousAdd)
    /\ UNCHANGED <<storeVars, engineVars, libVars, lockVars>>

\* extend(texts, scope, owner_id)
MemExtend ==
    /\ Len(table) + 2 <= MaxRows
    /\ \E b \in SampleBatches :
         LET r == Extend(Bank, b.texts, Len(b.texts), b.scope, b.owner_id) IN
         /\ table' = r.table
         /\ storedHashes' = r.hashes
    /\ lastRetrieval' = None
    /\ UNCHANGED <<storeVars, engineVars, libVars, lockVars>>

\* clear(): drop the table, create it again, empty the hash set
MemClear ==
    /\ table' = <<>>
    /\ storedHashes' = {}
    /\ lastRetrieval' = None
    /\ UNCHANGED <<storeVars, engineVars, libVars, lockVars>>

\* set_state(state)
MemSetState ==
    /\ \E hashes \in SampleCheckpoints : storedHashes' = hashes
    /\ lastRetrieval' = None
    /\ UNCHANGED <<table, storeVars, engineVars, libVars, lockVars>>

\* A new LanceDBMemoryBank over the same db_path and table name: __init__
\* starts from an empty hash set and _init_table opens the existing table
MemReopen ==
    /\ storedHashes' = {}
    /\ lastRetrieval' = None
    /\ UNCHANGED <<table, storeVars, engineVars, libVars, lockVars>>

\* retrieve_associative(query, k, scope_filter)
MemRetrieveAssociative ==
    /\ \E k \in 0..2 : \E f \in SampleFilters : \E R \in RetrieveAssociative(table, k, f) :
         lastRetrieval' = Retrieval("retrieve_associative", f, {table[i] : i \in R}, FALSE)
    /\ UNCHANGED <<table, storedHashes, storeVars, engineVars, libVars, lockVars>>

\* retrieve_recent(k, scope_filter)
MemRetrieveRecent ==
    /\ \E k \in 0..2 : \E f \in SampleFilters :
         lastRetrieval' = Retrieval("retrieve_recent", f,
                                    {table[i] : i \in RetrieveRecent(table, k, f)},
                                    k > 0 /\ PandasRaises(table, f))
    /\ UNCHANGED <<table, storedHashes, storeVars, engineVars, libVars, lockVars>>

\* scan(selector_fn, scope_filter)
MemScan ==
    /\ \E selector \in {{Fire}, {Fire, Smoke}} : \E f \in SampleFilters :
         lastRetrieval' = Retrieval("scan", f, {table[i] : i \in Scan(table, selector, f)},
                                    PandasRaises(table, f))
    /\ UNCHANGED <<table, storedHashes, storeVars, engineVars, libVars, lockVars>>

\* get_all_memories_as_text(scope_filter)
MemGetAll ==
    /\ \E f \in SampleFilters :
         lastRetrieval' = Retrieval("get_all_memories_as_text", f,
                                    {table[i] : i \in GetAllMemoriesAsText(table, f)},
                                    PandasRaises(table, f))
    /\ UNCHANGED <<table, storedHashes, storeVars, engineVars, libVars, lockVars>>

MemNext ==
    \/ MemAdd
    \/ MemExtend
    \/ MemClear
    \/ MemSetState
    \/ MemReopen
    \/ MemRetrieveAssociative
    \/ MemRetrieveRecent
    \/ MemScan
    \/ MemGetAll

MemSpec == MemInit /\ [][MemNext]_vars

\* C4: no two rows of the table have the same text, owner_id and scope.
C4_NoDuplicateRows ==
    \A i, j \in 1..Len(table) :
        /\ table[i].text = table[j].text
        /\ table[i].owner_id = table[j].owner_id
        /\ table[i].scope = table[j].scope
        => i = j

IsPrivateOf(row, owner) == row.scope = ScopeValue(PRIVATE) /\ row.owner_id = owner

AddedTwice ==
    /\ lastRetrieval # None /\ lastRetrieval.op = "add"
    /\ lastRetrieval.prev # None
    /\ lastRetrieval.prev.call = lastRetrieval.call
    /\ ~lastRetrieval.prev.known

TrueThenFalse ==
    /\ lastRetrieval.prev.added /\ ~lastRetrieval.added
    /\ lastRetrieval.after = lastRetrieval.prev.before + 1

\* C22 as stated: for any text t, scope s and owner o, add(t, s, o) followed
\* by a second add(t, s, o) returns true, then false, and the memory count
\* grows by exactly 1.
C22_AsStated == AddedTwice => TrueThenFalse

\* C22 amended: the same for any text that is not empty after its newlines
\* are replaced and it is stripped; for a text that is empty then, both
\* calls return false and the count does not change.
C22_IdempotentAdd ==
    AddedTwice =>
        IF CleanText(lastRetrieval.call.text) # <<>> THEN TrueThenFalse
        ELSE /\ ~lastRetrieval.prev.added /\ ~lastRetrieval.added
             /\ lastRetrieval.after = lastRetrieval.prev.before

C22_Witness ==
    /\ AddedTwice
    /\ lastRetrieval.call.text = <<" ", "f", "\n">>
    /\ lastRetrieval.prev.before = 1

VisibleByRule(f, row) ==
    \/ row.scope = ScopeValue(PUBLIC) /\ f.include_public
    \/ row.scope = ScopeValue(PRIVATE) /\ row.owner_id = f.agent_id
    \/ row.scope = ScopeValue(SHARED_GROUP)
         /\ (row.group_id \in f.groups \/ row.owner_id = f.agent_id)

\* C11: under a scope filter a stored row passes the retrieval's filter if
\* and only if the visibility rule admits it.
C11_VisibilityRule ==
    \A i \in 1..Len(table) : \A f \in SampleFilters \ {None} :
        BuildLanceDbFilter(f, table[i]) <=> VisibleByRule(f, table[i])

(***************************************************************************)
(* LockSpec: threads calling add() and clear() on one bank, statement by   *)
(* statement.  The text is cleaned and hashed before the lock is taken;    *)
(* the duplicate check, the embedding, the table insert and the hash-set   *)
(* update run inside "with self._lock".                                    *)
(***************************************************************************)
\* threading.Lock: acquire succeeds only while nobody holds it
LockFreeAlways(l) == TRUE
LockFree(l) == l = None

\* The calls of add() the threads make
ThreadMemories ==
    { [text |-> Fire, scope |-> PRIVATE, owner_id |-> Some("A"), group_id |-> None],
      [text |-> <<"f", "\n">>, scope |-> PRIVATE, owner_id |-> Some("A"), group_id |-> None],
      [text |-> Smoke, scope |-> PUBLIC, owner_id |-> None, group_id |-> None] }

Returned(results, hash, value) ==
    LET old == IF hash \in DOMAIN results THEN results[hash] ELSE [done |-> 0, true |-> 0]
    IN  Put(results, hash, [done |-> old.done + 1,
                            true |-> old.true + (IF value THEN 1 ELSE 0)])

LockInit ==
    /\ db = EmptyDb
    /\ lastSave = NoSave
    /\ nSaves = 0
    /\ NewEngine(EmptyDb)
    /\ MemIdle
    /\ LibIdle

\* add(): clean the text, return False if nothing is left, compute the hash
AddBegin(t) ==
    /\ thr[t].pc = "idle"
    /\ thr[t].calls < MaxCalls
    /\ \E m \in ThreadMemories :
         LET clean == CleanText(m.text) IN
         thr' = [thr EXCEPT ![t] =
                    IF clean = <<>> THEN [pc |-> "idle", calls |-> @.calls + 1]
                    ELSE [pc |-> "add_lock", calls |-> @.calls + 1, m |-> m, text |-> clean,
                          content_hash |-> ComputeHash(clean, m.owner_id, m.scope)]]
    /\ UNCHANGED <<table, storedHashes, lastRetrieval, lock, addResults, storeVars, engineVars, libVars>>

\* with self._lock: (entering)
AddAcquire(t) ==
    /\ thr[t].pc = "add_lock"
    /\ LockFree(lock)
    /\ lock' = Some(t)
    /\ thr' = [thr EXCEPT ![t].pc = "add_check"]
    /\ UNCHANGED <<table, storedHashes, lastRetrieval, addResults, storeVars, engineVars, libVars>>

\* if content_hash in self._stored_hashes: return False; else the embedding
AddCheck(t) ==
    /\ thr[t].pc = "add_check"
    /\ IF thr[t].content_hash \in storedHashes
       THEN /\ lock' = None
            /\ thr' = [thr EXCEPT ![t] = [pc |-> "idle", calls |-> @.calls]]
            /\ addResults' = Returned(addResults, thr[t].content_hash, FALSE)
       ELSE /\ thr' = [thr EXCEPT ![t].pc = "add_insert"]
            /\ UNCHANGED <<lock, addResults>>
    /\ UNCHANGED <<table, storedHashes, lastRetrieval, storeVars, engineVars, libVars>>

\* self._table.add(data)
AddInsert(t) ==
    /\ thr[t].pc = "add_insert"
    /\ table' = Append(table, MemoryRow(thr[t].text, thr[t].m.scope, thr[t].m.owner_id,
                                        thr[t].m.group_id))
    /\ thr' = [thr EXCEPT ![t].pc = "add_record"]
    /\ UNCHANGED <<storedHashes, lastRetrieval, lock, addResults, storeVars, engineVars, libVars>>

\* self._stored_hashes.add(content_hash); return True (leaving the lock)
AddRecord(t) ==
    /\ thr[t].pc = "add_record"
    /\ storedHashes' = storedHashes \cup {thr[t].content_hash}
    /\ lock' = None
    /\ thr' = [thr EXCEPT ![t] = [pc |-> "idle", calls |-> @.calls]]
    /\ addResults' = Returned(addResults, thr[t].content_hash, TRUE)
    /\ UNCHANGED <<table, lastRetrieval, storeVars, engineVars, libVars>>

\* clear(): with self._lock: (entering)
ClearAcquire(t) ==
    /\ thr[t].pc = "idle"
    /\ thr[t].calls < MaxCalls
    /\ LockFree(lock)
    /\ lock' = Some(t)
    /\ thr' = [thr EXCEPT ![t] = [pc |-> "clear_drop", calls |-> @.calls + 1]]
    /\ UNCHANGED <<table, storedHashes, lastRetrieval, addResults, storeVars, engineVars, libVars>>

\* self._db.drop_table(...); self._init_table()
ClearDrop(t) ==
    /\ thr[t].pc = "clear_drop"
    /\ table' = <<>>
    /\ addResults' = EmptyDict
    /\ thr' = [thr EXCEPT ![t].pc = "clear_hashes"]
    /\ UNCHANGED <<storedHashes, lastRetrieval, lock, storeVars, engineVars, libVars>>

\* self._stored_hashes.clear() (leaving the lock)
ClearHashes(t) ==
    /\ thr[t].pc = "clear_hashes"
    /\ storedHashes' = {}
    /\ lock' = None
    /\ thr' = [thr EXCEPT ![t] = [pc |-> "idle", calls |-> @.calls]]
    /\ UNCHANGED <<table, lastRetrieval, addResults, storeVars, engineVars, libVars>>

LockNext ==
    \/ \E t \in Threads : AddBegin(t)
    \/ \E t \in Threads : AddAcquire(t)
    \/ \E t \in Threads : AddCheck(t)
    \/ \E t \in Threads : AddInsert(t)
    \/ \E t \in Threads : AddRecord(t)
    \/ \E t \in Threads : ClearAcquire(t)
    \/ \E t \in Threads : ClearDrop(t)
    \/ \E t \in Threads : ClearHashes(t)

LockSpec == LockInit /\ [][LockNext]_vars

InsideLock == {"add_check", "add_insert", "add_record", "clear_drop", "clear_hashes"}

RowsWithHash(h) ==
    {i \in 1..Len(table) : <<table[i].text, table[i].owner_id, table[i].scope>> = h}

\* C12: the statements inside the bank's lock are executed by one thread at
\* a time, and whenever no call is inside the lock every hash that add() was
\* called with since the last clear() has exactly one row and exactly one
\* of those calls returned True.
C12_SerializedAdds ==
    /\ \A t \in Threads : thr[t].pc \in InsideLock => lock = Some(t)
    /\ lock = None =>
         /\ \A h \in DOMAIN addResults :
               /\ addResults[h].true = 1
               /\ Cardinality(RowsWithHash(h)) = 1
         /\ \A i \in 1..Len(table) :
               <<table[i].text, table[i].owner_id, table[i].scope>> \in DOMAIN addResults

C12_Witness ==
    /\ thr["w1"].pc = "idle" /\ thr["w2"].pc = "idle"
    /\ \E h \in DOMAIN addResults : addResults[h].done = 2 /\ addResults[h].true = 1
    /\ Len(table) = 1
    /\ thr["w1"].calls = 1 /\ thr["w2"].calls = 1

(***************************************************************************)
(* FeasibilityEngine and SpatialConstraintChecker.  What a check function  *)
(* or a spatial query finds in the world is an input: each check is valid, *)
(* invalid or raises.                                                      *)
(***************************************************************************)
Constraint(name, constraint_type, error_message) ==
    [name |-> name, constraint_type |-> constraint_type, error_message |-> error_message]

\* _register_default_constraints
DefaultConstraints ==
    << Constraint("resource_availability", "resource", "Required resources are not available"),
       Constraint("asset_operational", "physical", "Referenced asset is not operational"),
       Constraint("actor_authorized", "policy", "Actor is not authorized to perform this action"),
       Constraint("spatial_movement", "spatial", "Movement blocked by terrain or distance") >>

\* Constraints handed to register_constraint
SampleConstraints ==
    { Constraint("budget_cap", "budget", "Over budget"),
      Constraint("deadline", "temporal", "Too late") }

\* _generate_recommendation: None for a type without advice
GenerateRecommendation(violation) ==
    LET t == violation.type IN
    IF t = "resource" THEN Some("Consider reallocating resources or waiting for replenishment")
    ELSE IF t = "physical" THEN Some("Asset may need repairs or status update before use")
    ELSE IF t = "policy" THEN Some("Request authorization or use assets under your control")
    ELSE IF t = "budget" THEN Some("Review budget allocation or reduce scope of operation")
    ELSE IF t = "logistics" THEN Some("Consider alternative routes or staging areas")
    ELSE IF t = "spatial"
    THEN Some("Choose a different route or destination to avoid impassable terrain")
    ELSE None

FeasibilityReport(feasible, intent, constraints_checked, violations, recommendations) ==
    [feasible |-> feasible, intent |-> intent, constraints_checked |-> constraints_checked,
     violations |-> violations, recommendations |-> recommendations]

\* The elements of seq at the positions that satisfy Test, in order
Positions(n, Test(_)) == SelectSeq([i \in 1..n |-> i], Test)

\* feasible = len(violations) == 0
FeasibleAlways(violations) == TRUE
Feasible(violations) == Len(violations) = 0

\* check_feasibility: outcome[i] is what constraints[i].check_fn does, "valid"
\* (True), "invalid" (False) or "raise" (logged, not a violation)
CheckFeasibility(constraints, outcome, intent) ==
    LET failed == Positions(Len(constraints), LAMBDA i : outcome[i] = "invalid")
        violations == [k \in 1..Len(failed) |->
                          [constraint |-> constraints[failed[k]].name,
                           type |-> constraints[failed[k]].constraint_type,
                           message |-> constraints[failed[k]].error_message]]
        advised == Positions(Len(violations),
                             LAMBDA k : GenerateRecommendation(violations[k]) # None)
    IN  FeasibilityReport(Feasible(violations), intent,
                          [i \in 1..Len(constraints) |-> constraints[i].name],
                          violations,
                          [k \in 1..Len(advised) |->
                              GenerateRecommendation(violations[advised[k]]).some])

SpatialConstraintResult(passed, constraint_type) ==
    [passed |-> passed, constraint_type |-> constraint_type]

\* validate_movement: lookup is "found" or "missing" (no row for the entity);
\* the distance check is made only when max_distance_degrees is given
ValidateMovement(lookup, hasMax, distanceOk, terrainOk, pathOk) ==
    IF lookup = "missing"
    THEN [passed |-> FALSE, results |-> <<SpatialConstraintResult(FALSE, "distance")>>]
    ELSE LET results ==
                 (IF hasMax THEN <<SpatialConstraintResult(distanceOk, "distance")>> ELSE <<>>)
                 \o <<SpatialConstraintResult(terrainOk, "terrain"),
                      SpatialConstraintResult(pathOk, "path")>>
         IN  [passed |-> \A i \in 1..Len(results) : results[i].passed, results |-> results]

\* check_movement_feasibility
CheckMovementFeasibility(entity_id, lookup, hasMax, distanceOk, terrainOk, pathOk) ==
    LET v == ValidateMovement(lookup, hasMax, distanceOk, terrainOk, pathOk)
        failed == Positions(Len(v.results), LAMBDA i : ~v.results[i].passed)
    IN  FeasibilityReport(v.passed, <<"Move", entity_id>>,
                          [i \in 1..Len(v.results) |-> v.results[i].constraint_type],
                          [k \in 1..Len(failed) |->
                              [constraint |-> v.results[failed[k]].constraint_type,
                               type |-> "spatial"]],
                          IF ~v.passed
                          THEN <<"Consider alternative routes or closer destinations">>
                          ELSE <<>>)

(***************************************************************************)
(* GatherSpec: asyncio.gather over several async_step() calls on one       *)
(* engine.  gather creates the tasks one after the other, so their first   *)
(* steps stand next to each other in the event loop's queue: no other      *)
(* callback runs between them.  call holds the tasks still to start and    *)
(* what each finished call returned.                                       *)
(***************************************************************************)
GatherTasks == <<"t1", "t2">>

GatherCall(pending, before, result) ==
    [op |-> "gather", args |-> [tasks |-> GatherTasks, steps |-> before],
     pending |-> pending, result |-> result]

\* The dict async_step returns, from the tick it made
StepResult(e) == [cycle |-> TickCycle(e.before), status |-> e.status, saved |-> e.saved]

WithResult(t) ==
    IF Len(tickLog') > Len(tickLog)
    THEN [call EXCEPT !.result = Put(@, t, StepResult(Last(tickLog')))]
    ELSE call

\* asyncio.gather(*[engine.async_step() for _ in range(n)])
Gather ==
    /\ call = None
    /\ \A t \in Tasks : taskPc[t] = "idle"
    /\ call' = GatherCall(GatherTasks, steps, EmptyDict)
    /\ cancelled' = FALSE
    /\ UNCHANGED <<storeVars, memVars, stream>>
    /\ UNCHANGED <<steps, running, paused, gate, closed, archon, taskPc, waiters, readyQ,
                   agentCache, nextObj, events, startCycle, startSnapMax, tickLog, lastUsed>>

\* The first step of the next task gather created
GatherRun ==
    /\ call # None /\ call.pending # <<>>
    /\ LET t == Head(call.pending) IN
        /\ EnterStep(t, "idle")
        /\ call' = [WithResult(t) EXCEPT !.pending = Tail(call.pending)]
    /\ cancelled' = FALSE
    /\ UNCHANGED <<running, paused, gate, closed, archon, startCycle, startSnapMax>>
    /\ UNCHANGED <<lastSave, nSaves, memVars, stream>>

\* A task resumed at the gate runs its tick
GatherWake ==
    /\ call # None
    /\ WakeTask
    /\ call' = WithResult(Head(readyQ))
    /\ UNCHANGED <<lastSave, nSaves, memVars, stream>>

\* Calls of the engine's clients, made from callbacks of their own
GatherClient ==
    /\ call # None => call.pending = <<>>
    /\ Pause \/ Resume \/ AttachArchon \/ Shutdown

GatherNext ==
    \/ Gather
    \/ GatherRun
    \/ GatherWake
    \/ GatherClient

GatherSpec == Init /\ [][GatherNext]_vars

(***************************************************************************)
(* The three nodes of the Archon's graph.  gen[a] is what happens when the *)
(* intent of actor a is generated: "intent", or an exception raised by the *)
(* perception sphere ("raise_sphere") or by the agent ("raise_intent");    *)
(* feas[a] is the outcome of the four default constraints on a's intent.   *)
(***************************************************************************)
IntentOf(a) == <<"intent of", a>>

NodeState(actor_intents, actor_errors, perception_context, feasibility_reports) ==
    [actor_intents |-> actor_intents, actor_errors |-> actor_errors,
     perception_context |-> perception_context, feasibility_reports |-> feasibility_reports]

\* _actor_perception_node over the actors ids[1..n] in turn
ActorPerceptionNodeNoHandler(ids, n, gen) ==
    LET stop == IF \E i \in 1..n : gen[ids[i]] # "intent"
                THEN CHOOSE i \in 1..n : gen[ids[i]] # "intent" /\
                                         \A j \in 1..(i - 1) : gen[ids[j]] = "intent"
                ELSE n + 1
    IN  NodeState([a \in {ids[i] : i \in 1..(stop - 1)} |-> IntentOf(a)],
                  [a \in {ids[i] : i \in {stop} \cap (1..n)} |-> Text("Error in agent ", a)],
                  [a \in {ids[i] : i \in 1..(stop - 1)} |-> "sphere"], EmptyDict)
RECURSIVE ActorPerceptionNode(_, _, _)
ActorPerceptionNode(ids, n, gen) ==
    IF n = 0 THEN NodeState(EmptyDict, EmptyDict, EmptyDict, EmptyDict)
    ELSE LET st == ActorPerceptionNode(ids, n - 1, gen)
             a == ids[n]
         IN  [st EXCEPT
                !.perception_context = IF gen[a] = "raise_sphere" THEN @ ELSE Put(@, a, "sphere"),
                !.actor_intents = IF gen[a] = "intent" THEN Put(@, a, IntentOf(a)) ELSE @,
                !.actor_errors = IF gen[a] = "intent" THEN @
                                 ELSE Put(@, a, Text("Error in agent ", a))]

\* _feasibility_check_node: a report for every intent whose actor has no error
FeasibilityCheckNode(st, feas) ==
    [st EXCEPT !.feasibility_reports =
        [a \in (DOMAIN st.actor_intents) \ (DOMAIN st.actor_errors) |->
            CheckFeasibility(DefaultConstraints, feas[a], st.actor_intents[a])]]

\* The metadata of the ADJUDICATION event
AdjudicationMetadataIntentsOnly(st) ==
    [intents |-> st.actor_intents, feasibility_reports |-> EmptyDict,
     perception_context |-> st.perception_context, errors |-> st.actor_errors]
AdjudicationMetadata(st) ==
    [intents |-> st.actor_intents, feasibility_reports |-> st.feasibility_reports,
     perception_context |-> st.perception_context, errors |-> st.actor_errors]

\* _archon_adjudication_node's write to the stream evs
ArchonAdjudicationNode(st, evs, outcome, cycle) ==
    IF StreamIsTruthy(evs)
    THEN AddEvent(evs, [event_type |-> "adjudication", content |-> Summary(outcome),
                        cycle |-> cycle, metadata |-> AdjudicationMetadata(st)],
                  DefaultMaxEvents)
    ELSE evs

\* run_cycle: the state the graph ends with and the stream afterwards
RunCycle(ids, gen, feas, evs, outcome, cycle) ==
    LET st == FeasibilityCheckNode(ActorPerceptionNode(ids, Len(ids), gen), feas)
    IN  [state |-> st, events |-> ArchonAdjudicationNode(st, evs, outcome, cycle)]

(***************************************************************************)
(* Terrain and path cost.  Movement costs are counted in halves, so that   *)
(* 0.5 is 1 and the default 1.0 is 2.  A terrain row holds its cost and    *)
(* whether ST_Intersects finds its polygon on the segment asked about.     *)
(***************************************************************************)
DefaultCost == 2

TerrainRow(movement_cost, crossed) == [movement_cost |-> movement_cost, crossed |-> crossed]

\* calculate_path_cost: COALESCE(MAX(movement_cost), 1.0) over the rows crossed
CalculatePathCost(terrain) ==
    LET costs == {terrain[p].movement_cost : p \in {q \in DOMAIN terrain : terrain[q].crossed}}
    IN  IF costs = {} THEN DefaultCost ELSE MaxOf(costs)

(***************************************************************************)
(* sample_choice.  A reply of the model is either an exception raised by   *)
(* invoke or a text, of which only the numbers re.findall finds matter;    *)
(* replies[k] is what the k-th call of invoke produces.                    *)
(***************************************************************************)
Reply(raised, numbers) == [raised |-> raised, numbers |-> numbers]

\* The option number the reply selects, if it has one: the first number of
\* the text, when it is between 1 and the number of options
ValidChoice(reply, n) ==
    /\ ~reply.raised
    /\ reply.numbers # <<>>
    /\ 1 <= reply.numbers[1] /\ reply.numbers[1] <= n

max_attempts == 3

\* for attempt in range(max_attempts)
MoreAttemptsOneExtra(attempt, limit) == attempt < limit + 1
MoreAttempts(attempt, limit) == attempt < limit

ChoiceResult(raised, index, attempts) ==
    [raised |-> raised, index |-> index, attempts |-> attempts]

\* The loop of sample_choice from the attempt numbered attempt (from 0)
RECURSIVE SampleLoop(_, _, _)
SampleLoop(replies, n, attempt) ==
    IF ~MoreAttempts(attempt, max_attempts)
    THEN ChoiceResult("InvalidResponseError", None, attempt)
    ELSE IF ValidChoice(replies[attempt + 1], n)
         THEN ChoiceResult("", Some(replies[attempt + 1].numbers[1] - 1), attempt + 1)
         ELSE SampleLoop(replies, n, attempt + 1)

\* sample_choice(prompt, responses) with n responses
SampleChoice(replies, n) ==
    IF n = 0 THEN ChoiceResult("InvalidResponseError", None, 0)
    ELSE SampleLoop(replies, n, 0)

(***************************************************************************)
(* Pruning.  Importances and similarities are counted in hundredths.  A    *)
(* text is its string (form) and the set of its lower-cased words.         *)
(***************************************************************************)
FullImportance == 100
ConsolidationThreshold == 85

MemoryText(form, words) == [form |-> form, words |-> words]
PrunerMemory(text, importance) == [text |-> text, importance |-> importance]

MinNum(a, b) == IF a <= b THEN a ELSE b
MaxNum(a, b) == IF a >= b THEN a ELSE b

\* MemoryConsolidator._default_similarity: the Jaccard index of the word sets
DefaultSimilarity(text1, text2) ==
    IF text1.words = {} \/ text2.words = {} THEN 0
    ELSE (Cardinality(text1.words \cap text2.words) * 100)
             \div Cardinality(text1.words \cup text2.words)

\* MemoryConsolidator.consolidate_pair: (consolidated_text, new_importance)
ConsolidatePairUnboosted(memory1, memory2, importance1, importance2) ==
    <<IF importance1 >= importance2 THEN memory1 ELSE memory2,
      MaxNum(importance1, importance2)>>
ConsolidatePair(memory1, memory2, importance1, importance2) ==
    <<IF importance1 >= importance2 THEN memory1 ELSE memory2,
      MinNum(FullImportance, (MaxNum(importance1, importance2) * 12) \div 10)>>

\* The inner loop of _consolidate_memories for the row i, over the later
\* rows j..n: st holds the rows and the indices to remove
RECURSIVE ConsolidateInto(_, _, _)
ConsolidateInto(st, i, j) ==
    IF j > Len(st.memories) THEN st
    ELSE IF /\ DefaultSimilarity(st.memories[j].text, st.memories[i].text)
                   >= ConsolidationThreshold
            /\ j \notin st.to_remove
         THEN ConsolidateInto(
                  [memories |-> [st.memories EXCEPT ![i].importance =
                                    ConsolidatePair(st.memories[i].text, st.memories[j].text,
                                                    st.memories[i].importance,
                                                    st.memories[j].importance)[2]],
                   to_remove |-> st.to_remove \cup {j}], i, j + 1)
         ELSE ConsolidateInto(st, i, j + 1)

RECURSIVE ConsolidateFrom(_, _)
ConsolidateFrom(st, i) ==
    IF i > Len(st.memories) THEN st
    ELSE IF i \in st.to_remove THEN ConsolidateFrom(st, i + 1)
    ELSE ConsolidateFrom(ConsolidateInto(st, i, i + 1), i + 1)

\* MemoryPruner._consolidate_memories
ConsolidateMemories(memories) ==
    IF Len(memories) < 2 THEN memories
    ELSE LET st == ConsolidateFrom([memories |-> memories, to_remove |-> {}], 1)
             keep == {i \in 1..Len(memories) : i \notin st.to_remove}
             RECURSIVE Kept(_)
             Kept(i) == IF i > Len(memories) THEN <<>>
                        ELSE IF i \in keep THEN <<st.memories[i]>> \o Kept(i + 1)
                        ELSE Kept(i + 1)
         IN  Kept(1)

(***************************************************************************)
(* LibSpec: the operations that keep no state of their own, each called on *)
(* inputs drawn from small sets, and a MemoryStream of its own.            *)
(***************************************************************************)
Call(op, args, result) == [op |-> op, args |-> args, result |-> result]

LibInit ==
    /\ db = EmptyDb
    /\ lastSave = NoSave
    /\ nSaves = 0
    /\ NewEngine(EmptyDb)
    /\ MemIdle
    /\ LibIdle

\* The constraint lists an engine can hold: the defaults, alone or followed
\* by one constraint given to register_constraint
ConstraintLists ==
    {DefaultConstraints} \cup
    {DefaultConstraints \o <<c>> : c \in SampleConstraints}

\* check_feasibility(intent, world_state)
LibCheckFeasibility ==
    /\ \E constraints \in ConstraintLists :
       \E outcome \in [1..Len(constraints) -> {"valid", "invalid", "raise"}] :
       \E intent \in {"hold", "move truck"} :
         call' = Call("check_feasibility", <<intent, outcome>>,
                      CheckFeasibility(constraints, outcome, intent))
    /\ UNCHANGED <<storeVars, engineVars, memVars, stream>>

\* check_movement_feasibility(entity_id, target_lon, target_lat, max_distance_degrees)
LibCheckMovementFeasibility ==
    /\ \E lookup \in {"found", "missing"} : \E hasMax, distanceOk, terrainOk, pathOk \in BOOLEAN :
         call' = Call("check_movement_feasibility",
                      <<lookup, hasMax, distanceOk, terrainOk, pathOk>>,
                      CheckMovementFeasibility("truck", lookup, hasMax, distanceOk,
                                               terrainOk, pathOk))
    /\ UNCHANGED <<storeVars, engineVars, memVars, stream>>

\* The actors of the world in dict order, and the outcomes of the four
\* default constraints an intent can meet
SampleActorIds == <<"a1", "a2">>
SampleChecks ==
    { [i \in 1..4 |-> "valid"],
      [i \in 1..4 |-> IF i = 4 THEN "invalid" ELSE "valid"],
      [i \in 1..4 |-> IF i = 1 THEN "raise" ELSE "valid"] }

\* Archon.run_cycle(world_state) with a stream that is empty or holds one event
LibRunCycle ==
    /\ \E gen \in [{"a1", "a2"} -> {"intent", "raise_sphere", "raise_intent"}] :
       \E feas \in [{"a1", "a2"} -> SampleChecks] :
       \E evs \in {<<>>, <<[event_type |-> "observation"]>>} :
       \E outcome \in {"ok", "llm_error"} :
         call' = Call("run_cycle", [ids |-> SampleActorIds, gen |-> gen, events |-> evs],
                      RunCycle(SampleActorIds, gen, feas, evs, outcome, 1))
    /\ UNCHANGED <<storeVars, engineVars, memVars, stream>>

\* The costs a terrain feature can have: road 0.5, plains 1.0, forest 2.0
SampleCosts == {1, 2, 4}

\* calculate_path_cost on a store with up to two terrain features
LibCalculatePathCost ==
    /\ \E ids \in SUBSET {"p1", "p2"} :
       \E terrain \in [ids -> {TerrainRow(c, x) : c \in SampleCosts, x \in BOOLEAN}] :
         call' = Call("calculate_path_cost", [terrain |-> terrain], CalculatePathCost(terrain))
    /\ UNCHANGED <<storeVars, engineVars, memVars, stream>>

\* Replies of the model: an exception, no number, a number out of range
\* followed by one in range, and a number in range
SampleReplies ==
    {Reply(TRUE, <<>>), Reply(FALSE, <<>>), Reply(FALSE, <<5, 1>>), Reply(FALSE, <<2>>)}

\* sample_choice with two options, or with none
LibSampleChoice ==
    /\ \/ \E replies \in [1..4 -> SampleReplies] :
            call' = Call("sample_choice", [replies |-> replies, n |-> 2],
                         SampleChoice(replies, 2))
       \/ call' = Call("sample_choice", [replies |-> [k \in 1..4 |-> Reply(FALSE, <<2>>)],
                                         n |-> 0],
                       SampleChoice([k \in 1..4 |-> Reply(FALSE, <<2>>)], 0))
    /\ UNCHANGED <<storeVars, engineVars, memVars, stream>>

\* Memories a pruner is given: two texts with the same words, one unlike them
PrunerMemories ==
    {PrunerMemory(t, i) :
        t \in {MemoryText("a b", {"a", "b"}), MemoryText("B a", {"a", "b"}),
               MemoryText("x", {"x"})},
        i \in {30, 50, 90}}

\* _consolidate_memories over at most two memories
LibConsolidateMemories ==
    /\ \E n \in 0..2 : \E memories \in [1..n -> PrunerMemories] :
         call' = Call("consolidate_memories", [memories |-> memories],
                      ConsolidateMemories(memories))
    /\ UNCHANGED <<storeVars, engineVars, memVars, stream>>

\* attach_archon with an Archon or with an object that lacks set_memory_systems
LibAttachArchon ==
    /\ \E current \in {"none"} \cup Archons : \E a \in Archons \cup {"bare"} :
         call' = Call("attach_archon", [current |-> current, archon |-> a],
                      AttachArchonResult(current, a))
    /\ UNCHANGED <<storeVars, engineVars, memVars, stream>>

LibNext ==
    \/ LibAttachArchon
    \/ LibConsolidateMemories
    \/ LibSampleChoice
    \/ LibCalculatePathCost
    \/ LibCheckFeasibility
    \/ LibCheckMovementFeasibility
    \/ LibRunCycle

LibSpec == LibInit /\ [][LibNext]_vars

IsReport == call # None /\ call.op \in {"check_feasibility", "check_movement_feasibility"}

\* C23: every FeasibilityReport the feasibility engine produces has no
\* violations when feasible is true and at least one when it is false.
C23_ReportConsistent ==
    IsReport => (call.result.feasible <=> call.result.violations = <<>>)

C23_Witness ==
    /\ IsReport
    /\ call.op = "check_feasibility"
    /\ ~call.result.feasible
    /\ \E i \in DOMAIN call.args[2] : call.args[2][i] = "raise"
    /\ Len(call.result.violations) = 2

IsRunCycle == call # None /\ call.op = "run_cycle"
ActorsOf(c) == {c.args.ids[i] : i \in 1..Len(c.args.ids)}

\* C24: when generating the intent of one actor raises, the error string is
\* recorded under actor_errors for that actor, and every other actor of the
\* world is still processed in the same cycle.
C24_ActorErrorsIsolated ==
    IsRunCycle =>
        \A a \in ActorsOf(call) :
            IF call.args.gen[a] = "intent"
            THEN /\ a \in DOMAIN call.result.state.actor_intents
                 /\ call.result.state.actor_intents[a] = IntentOf(a)
                 /\ a \notin DOMAIN call.result.state.actor_errors
            ELSE /\ a \in DOMAIN call.result.state.actor_errors
                 /\ call.result.state.actor_errors[a].prefix = "Error in agent "
                 /\ a \notin DOMAIN call.result.state.actor_intents

C24_Witness ==
    /\ IsRunCycle
    /\ call.args.gen["a1"] = "raise_intent"
    /\ call.args.gen["a2"] = "intent"
    /\ "a2" \in DOMAIN call.result.state.feasibility_reports

\* The ADJUDICATION events the latest run_cycle left in the stream
Adjudications(c) ==
    {i \in 1..Len(c.result.events) : c.result.events[i].event_type = "adjudication"}

\* C25: the metadata of a cycle's ADJUDICATION event holds an entry for the
\* intent of each actor that produced one and an entry for the feasibility
\* report of each such intent.
C25_MetadataComplete ==
    IsRunCycle =>
        \A i \in Adjudications(call) :
            LET metadata == call.result.events[i].metadata IN
            \A a \in ActorsOf(call) :
                call.args.gen[a] = "intent" =>
                    /\ a \in DOMAIN metadata.intents
                    /\ metadata.intents[a] = IntentOf(a)
                    /\ a \in DOMAIN metadata.feasibility_reports
                    /\ metadata.feasibility_reports[a].intent = IntentOf(a)

C25_Witness ==
    /\ IsRunCycle
    /\ Adjudications(call) # {}
    /\ \A a \in ActorsOf(call) : call.args.gen[a] = "intent"
    /\ \E i \in Adjudications(call) :
          ~call.result.events[i].metadata.feasibility_reports["a2"].feasible

(***************************************************************************)
(* StreamSpec: one MemoryStream with its list of events and its map from   *)
(* event id to event.  The timestamp of an event is the reading of the     *)
(* clock when it is built; two readings in a row can be equal.             *)
(***************************************************************************)
MaxStreamEvents == 2
MaxClock == 2

\* StreamEvent.__post_init__: the id is a digest of type, content, cycle and timestamp
EventId(event_type, content, cycle, timestamp) == <<event_type, content, cycle, timestamp>>

StreamEvent(event_type, content, cycle, actor_id, timestamp) ==
    [event_id |-> EventId(event_type, content, cycle, timestamp),
     event_type |-> event_type, content |-> content, cycle |-> cycle,
     actor_id |-> actor_id, timestamp |-> timestamp]

\* MemoryStream.__init__
MemoryStream(max_events) ==
    [events |-> <<>>, index |-> EmptyDict, max_events |-> max_events]

Without(f, k) == [x \in (DOMAIN f) \ {k} |-> f[x]]

\* MemoryStream.add_event on the stream s: the stream afterwards, and whether
\* the deletion from the id map raised KeyError
AddEventIndexed(s, event) ==
    LET appended == Append(s.events, event)
        index == Put(s.index, event.event_id, event)
    IN  IF Len(appended) > s.max_events
        THEN LET removed == Head(appended)
             IN  IF removed.event_id \in DOMAIN index
                 THEN [stream |-> [s EXCEPT !.events = Tail(appended),
                                            !.index = Without(index, removed.event_id)],
                       raised |-> FALSE]
                 ELSE [stream |-> [s EXCEPT !.events = Tail(appended), !.index = index],
                       raised |-> TRUE]
        ELSE [stream |-> [s EXCEPT !.events = appended, !.index = index],
              raised |-> FALSE]

\* The latest reading of the clock the stream has seen
LastTimestamp(s) ==
    IF s.events = <<>> THEN 0 ELSE s.events[Len(s.events)].timestamp

StreamNew ==
    /\ stream = None
    /\ \E max_events \in 1..MaxStreamEvents : stream' = MemoryStream(max_events)
    /\ UNCHANGED <<storeVars, engineVars, memVars, call>>

StreamAddEvent ==
    /\ stream # None
    /\ \E event_type \in {"observation", "intent"} :
       \E actor_id \in {"a1", "a2"} :
       \E timestamp \in {LastTimestamp(stream), LastTimestamp(stream) + 1} \cap (0..MaxClock) :
         LET event == StreamEvent(event_type, "seen", 1, actor_id, timestamp)
             r == AddEventIndexed(stream, event)
         IN  /\ stream' = r.stream
             /\ call' = Call("add_event", [event |-> event, before |-> stream], r.raised)
    /\ UNCHANGED <<storeVars, engineVars, memVars>>

\* MemoryStream.clear
StreamClear ==
    /\ stream # None
    /\ stream' = [stream EXCEPT !.events = <<>>, !.index = EmptyDict]
    /\ call' = Call("clear", None, FALSE)
    /\ UNCHANGED <<storeVars, engineVars, memVars>>

\* MemoryStream.set_state: the events of the checkpoint replace the list,
\* and the id map is built from them, a later event winning an id
RECURSIVE IndexOf(_)
IndexOf(evs) ==
    IF evs = <<>> THEN EmptyDict
    ELSE Put(IndexOf(SubSeq(evs, 1, Len(evs) - 1)), evs[Len(evs)].event_id, evs[Len(evs)])

SetState(s, evs) == [s EXCEPT !.events = evs, !.index = IndexOf(evs)]

\* Checkpoints taken from a stream of the same size: the events two actors
\* recorded at one reading of the clock
StreamCheckpoints ==
    {<<>>, <<StreamEvent("observation", "seen", 1, "a1", 0)>>,
     <<StreamEvent("observation", "seen", 1, "a1", 0),
       StreamEvent("observation", "seen", 1, "a2", 0)>>}

StreamSetState ==
    /\ stream # None
    /\ \E evs \in StreamCheckpoints :
         /\ Len(evs) <= stream.max_events
         /\ stream' = SetState(stream, evs)
    /\ call' = Call("set_state", None, FALSE)
    /\ UNCHANGED <<storeVars, engineVars, memVars>>

StreamNext ==
    \/ StreamSetState
    \/ StreamNew
    \/ StreamAddEvent
    \/ StreamClear

StreamSpec == LibInit /\ [][StreamNext]_vars

EventIds(evs) == {evs[i].event_id : i \in 1..Len(evs)}

\* The size bound alone: the list never holds more than max_events events
StreamBounded == stream # None => Len(stream.events) <= stream.max_events

\* C26: after any sequence of add_event calls the stream holds at most
\* max_events events, and an add_event that overflows drops the oldest event,
\* and nothing else, from both the list and the id map: the call returns, and
\* the id map holds exactly the events of the list.
C26_OverflowDropsOldestFromBoth ==
    stream # None =>
        /\ Len(stream.events) <= stream.max_events
        /\ DOMAIN stream.index = EventIds(stream.events)
        /\ (call # None /\ call.op = "add_event") => ~call.result

GatherDone ==
    /\ call # None /\ call.op = "gather"
    /\ DOMAIN call.result = {GatherTasks[i] : i \in 1..Len(GatherTasks)}

\* get_current_cycle() after the gathered calls
StoreCycle == GetCurrentCycle(db, Sim)

IsPathCost == call # None /\ call.op = "calculate_path_cost"
Crossed(terrain) == {p \in DOMAIN terrain : terrain[p].crossed}

\* C29: for a path crossing k terrain polygons with costs c1..ck,
\* calculate_path_cost returns max(1.0, c1, ..., ck), and removing any polygon
\* cannot increase the result.
C29_PathCostMonotone ==
    IsPathCost =>
        LET terrain == call.args.terrain IN
        /\ call.result = MaxOf({DefaultCost} \cup
                                {terrain[p].movement_cost : p \in Crossed(terrain)})
        /\ \A p \in DOMAIN terrain :
              CalculatePathCost(Without(terrain, p)) <= call.result

MinOf(S) == CHOOSE m \in S : \A x \in S : m <= x

IsSampleChoice == call # None /\ call.op = "sample_choice"

\* C30: sample_choice calls the model at most three times, and raises
\* InvalidResponseError if none of the three replies holds a valid option
\* number; otherwise it returns the option of the first valid reply.
C30_ThreeAttempts ==
    IsSampleChoice =>
        LET replies == call.args.replies
            n == call.args.n
            valid == {k \in 1..3 : ValidChoice(replies[k], n)}
        IN  /\ call.result.attempts <= 3
            /\ valid = {} => call.result.raised = "InvalidResponseError"
            /\ valid # {} =>
                  /\ call.result.raised = ""
                  /\ call.result.attempts = MinOf(valid)
                  /\ call.result.index = Some(replies[MinOf(valid)].numbers[1] - 1)

\* Three replies without a valid number, one of them an exception, and a
\* fourth reply that would have been valid
C30_Witness ==
    /\ IsSampleChoice
    /\ call.args.n = 2
    /\ call.args.replies[1].raised
    /\ call.args.replies[2] = Reply(FALSE, <<5, 1>>)
    /\ call.args.replies[3] = Reply(FALSE, <<>>)
    /\ ValidChoice(call.args.replies[4], 2)
    /\ call.result.raised = "InvalidResponseError"
    /\ call.result.attempts = 3

\* The latest call consolidated two rows at least as similar as the threshold
ConsolidatedPair ==
    /\ call # None /\ call.op = "consolidate_memories"
    /\ Len(call.args.memories) = 2
    /\ DefaultSimilarity(call.args.memories[1].text, call.args.memories[2].text)
           >= ConsolidationThreshold

\* C31: when pruning consolidates two rows whose similarity is at least the
\* consolidation threshold, the row kept is the more important of the two,
\* and its importance becomes 1.2 times the higher importance, capped at 1.0.
C31_KeepsMoreImportant ==
    ConsolidatedPair =>
        LET m1 == call.args.memories[1]
            m2 == call.args.memories[2]
            top == IF m1.importance >= m2.importance THEN m1 ELSE m2
        IN  /\ Len(call.result) = 1
            /\ call.result[1].text = top.text
            /\ call.result[1].importance =
                  MinNum(FullImportance, (top.importance * 12) \div 10)

\* The thread t of add() is between the duplicate check and the table
\* insert: it is calling the embedding function
ComputingEmbedding(t) == thr[t].pc = "add_insert"

\* C32: the memory-bank mutex is never held by a thread while that thread
\* is computing an embedding.
C32_NoLockWhileEmbedding ==
    \A t \in Threads : ComputingEmbedding(t) => lock # Some(t)

\* LanceDBMemoryBank.__len__: the size of the hash set
BankLen == Cardinality(storedHashes)

\* C33: the count reported by the memory bank equals the number of rows it
\* holds, after any sequence of add, extend, clear and set_state.
C33_LenIsRowCount == BankLen = Len(table)

\* C39: if attach_archon fails because the archon lacks set_memory_systems,
\* the engine keeps the archon reference it had before the call, so a later
\* tick, which invokes whatever self.archon holds, never invokes the
\* rejected archon.
C39_RejectedArchonNotKept ==
    (call # None /\ call.op = "attach_archon" /\ call.result.raised # "") =>
        /\ call.result.archon = call.args.current
        /\ call.result.archon # call.args.archon

\* MemoryStream.get_event
GetEvent(s, event_id) == IF event_id \in DOMAIN s.index THEN s.index[event_id] ELSE None

\* C40: after any sequence of add_event, set_state and clear, the id map of
\* the stream contains exactly the ids of the events in the list, and lookup
\* by id finds each event still held, also when two events have the same id.
C40_IndexMatchesList ==
    stream # None =>
        /\ DOMAIN stream.index = EventIds(stream.events)
        /\ \A i \in 1..Len(stream.events) :
              GetEvent(stream, stream.events[i].event_id) = stream.events[i]

====
